---- MODULE Spec2Model ----
(***************************************************************************)
(* E-WiMill firmware: the SD access-mode arbiter (msc.c, sdcard.c), the    *)
(* USB Mass Storage block adapter with its one-sector write-back cache and *)
(* read-ahead window (msc.c), the HTTP file handlers with the FsOpLock     *)
(* and the streaming upload pipeline (web_fs.c), and path normalisation    *)
(* (web_fs.c).                                                             *)
(*                                                                         *)
(* Sizes are scaled: a sector is MSC_SECTOR_SIZE = 2 bytes instead of 512, *)
(* the RAM disk holds 3 sectors instead of 2048, the read-ahead window 2   *)
(* sectors instead of 8, and uint32_t / size_t (both 32 bits wide on the   *)
(* ESP32-S3) are Word = 2^4 wide.  Every arithmetic step that the C code   *)
(* does in uint32_t or size_t is reduced modulo Word.                      *)
(***************************************************************************)
EXTENDS Integers, Sequences, FiniteSets, TLC

\* ------------------------------------------------------------------ sizes
MSC_SECTOR_SIZE == 2
MSC_READAHEAD_SECTORS == 2
MSC_RAMDISK_SIZE == 6
Word == 2 ^ 4
Bytes == {0, 1}
NumHttp == 2
MaxUaReports == 2
UPLOAD_RECV_BUF_SIZE == 14
UPLOAD_HEADER_SIZE == 13
UPLOAD_TAIL_SIZE == 128
UPLOAD_RINGBUF_SIZE_DEFAULT == 28
MAX_PATH_LEN == 6

s_block_size == MSC_SECTOR_SIZE
s_ramdisk_size == MSC_RAMDISK_SIZE
s_block_count == s_ramdisk_size \div s_block_size

\* uint32_t / size_t arithmetic
U32(x) == x % Word

Min(a, b) == IF a < b THEN a ELSE b

\* task identities: HTTP handler threads are 1..NumHttp
HttpThreads == 1 .. NumHttp
USB_TASK == NumHttp + 1
SDTEST_TASK == NumHttp + 2

VARIABLES
    \* msc.c
    s_state, s_media_present, s_unit_attention, s_usb_installed,
    blk,            \* s_ramdisk, s_ramdisk_ready, s_cache, s_read_ahead
    usb_req,        \* the SCSI callback the USB task is inside of
    usb_ret, sense, \* what the last callback returned and the sense it set
    \* sdcard.c
    s_mounted, s_fs_mutex, s_sdtest_task, s_mode,
    \* web_fs.c
    s_fileop_mutex, fileop_holder,
    pc, req, resp,
    \* app_main: "no" before msc_init, then "cli" (cli_start reached) or
    \* "halted" (app_main returned on the init error)
    booted,
    \* web_fs.c, upload pipeline and path normalisation
    ctx, up, files, np,
    \* observers
    shadow, last_read, ua_reports, ua_chance

mscVars == <<s_state, s_media_present, s_unit_attention, s_usb_installed>>
usbVars == <<usb_req, usb_ret, sense>>
sdVars == <<s_mounted, s_fs_mutex, s_sdtest_task, s_mode>>
lockVars == <<s_fileop_mutex, fileop_holder>>
httpVars == <<pc, req, resp>>
upVars == <<ctx, up, files>>
obsVars == <<shadow, last_read, ua_reports, ua_chance>>
uaVars == <<ua_reports, ua_chance>>
vars == <<mscVars, blk, usbVars, sdVars, lockVars, httpVars, booted, upVars, np, obsVars>>

\* ------------------------------------------------------- block device
ZeroSector == [i \in 0 .. (MSC_SECTOR_SIZE - 1) |-> 0]
ZeroWindow == [i \in 0 .. (MSC_READAHEAD_SECTORS * MSC_SECTOR_SIZE - 1) |-> 0]
EmptyCache == [valid |-> FALSE, dirty |-> FALSE, lba |-> 0, data |-> ZeroSector]
EmptyReadAhead == [valid |-> FALSE, lba |-> 0, count |-> 0, data |-> ZeroWindow]

\* ramdisk_format: zero the disk, then write the boot sector (first byte 0xEB)
ramdisk_format == [i \in 0 .. (s_ramdisk_size - 1) |-> IF i = 0 THEN 1 ELSE 0]

\* storage_ready (MSC_USE_RAMDISK): s_ramdisk_ready && s_ramdisk
storage_ready(b) == b.ready

\* msc_read_sectors: offset and len are size_t, the bound check wraps with them.
msc_read_sectors(b, lba, count) ==
    IF ~b.ready
    THEN [ret |-> "ESP_ERR_INVALID_STATE", data |-> <<>>]
    ELSE LET offset == U32(lba * s_block_size)
             len == U32(count * s_block_size)
         IN  IF U32(offset + len) > s_ramdisk_size
             THEN [ret |-> "ESP_ERR_INVALID_SIZE", data |-> <<>>]
             ELSE [ret |-> "ESP_OK",
                   data |-> [i \in 0 .. (len - 1) |-> b.disk[offset + i]]]

\* msc_write_sectors: writes count sectors of buffer at lba.  b.fault is the
\* state of the card in the build without MSC_USE_RAMDISK, where the transfer
\* is sdmmc_write_sectors and returns the card's error: "write" while the card
\* refuses writes.  On the RAM disk it is "none" throughout.
msc_write_sectors(b, lba, buffer, count) ==
    IF ~b.ready
    THEN [ret |-> "ESP_ERR_INVALID_STATE", disk |-> b.disk]
    ELSE IF b.fault = "write"
    THEN [ret |-> "ESP_FAIL", disk |-> b.disk]
    ELSE LET offset == U32(lba * s_block_size)
             len == U32(count * s_block_size)
         IN  IF U32(offset + len) > s_ramdisk_size
             THEN [ret |-> "ESP_ERR_INVALID_SIZE", disk |-> b.disk]
             ELSE [ret |-> "ESP_OK",
                   disk |-> [i \in 0 .. (s_ramdisk_size - 1) |->
                                IF i >= offset /\ i < offset + len
                                THEN buffer[i - offset] ELSE b.disk[i]]]

\* does the read-ahead window [lba, lba+count) hold sector x
RaHolds(ra, x) == ra.valid /\ x >= ra.lba /\ x < U32(ra.lba + ra.count)

flush_cache_locked(b) ==
    IF ~b.cache.valid \/ ~b.cache.dirty
    THEN [b |-> b, ret |-> "ESP_OK"]
    ELSE LET w == msc_write_sectors(b, b.cache.lba, b.cache.data, 1)
         IN  IF w.ret = "ESP_OK"
             THEN [b |-> [b EXCEPT !.disk = w.disk,
                                   !.cache.dirty = FALSE,
                                   !.ra.valid = IF RaHolds(b.ra, b.cache.lba)
                                                THEN FALSE ELSE @],
                   ret |-> "ESP_OK"]
             ELSE [b |-> b, ret |-> w.ret]

load_cache_locked(b, lba) ==
    IF b.cache.valid /\ b.cache.lba = lba
    THEN [b |-> b, ret |-> "ESP_OK"]
    ELSE LET f == flush_cache_locked(b)
         IN  IF f.ret # "ESP_OK"
             THEN f
             ELSE LET r == msc_read_sectors(f.b, lba, 1)
                  IN  IF r.ret # "ESP_OK"
                      THEN [b |-> f.b, ret |-> r.ret]
                      ELSE [b |-> [f.b EXCEPT !.cache =
                                      [valid |-> TRUE, dirty |-> FALSE,
                                       lba |-> lba, data |-> r.data]],
                            ret |-> "ESP_OK"]

msc_read_partial(b, lba, offset, bufsize) ==
    IF ~storage_ready(b)
    THEN [b |-> b, ret |-> "ESP_ERR_INVALID_STATE", data |-> <<>>]
    ELSE IF U32(offset + bufsize) > s_block_size
    THEN [b |-> b, ret |-> "ESP_ERR_INVALID_ARG", data |-> <<>>]
    ELSE LET l == load_cache_locked(b, lba)
         IN  IF l.ret # "ESP_OK"
             THEN [b |-> l.b, ret |-> l.ret, data |-> <<>>]
             ELSE [b |-> l.b, ret |-> "ESP_OK",
                   data |-> [i \in 0 .. (bufsize - 1) |-> l.b.cache.data[offset + i]]]

msc_write_partial(b, lba, offset, buffer, bufsize) ==
    IF ~storage_ready(b)
    THEN [b |-> b, ret |-> "ESP_ERR_INVALID_STATE"]
    ELSE IF U32(offset + bufsize) > s_block_size
    THEN [b |-> b, ret |-> "ESP_ERR_INVALID_ARG"]
    ELSE LET f == IF b.cache.valid /\ b.cache.dirty /\ b.cache.lba # lba
                  THEN flush_cache_locked(b)
                  ELSE [b |-> b, ret |-> "ESP_OK"]
         IN  IF f.ret # "ESP_OK"
             THEN f
             ELSE LET l == load_cache_locked(f.b, lba)
                  IN  IF l.ret # "ESP_OK"
                      THEN l
                      ELSE [b |-> [l.b EXCEPT
                                     !.cache.data = [i \in 0 .. (MSC_SECTOR_SIZE - 1) |->
                                         IF i >= offset /\ i < offset + bufsize
                                         THEN buffer[i - offset] ELSE @[i]],
                                     !.cache.dirty = TRUE,
                                     !.ra.valid = IF RaHolds(l.b.ra, lba) THEN FALSE ELSE @],
                            ret |-> "ESP_OK"]

\* the locked part of tud_msc_read10_cb (between lock_io and unlock_io)
read10_locked(b, lba, offset, bufsize) ==
    IF offset = 0 /\ bufsize % s_block_size = 0
    THEN LET b1 == IF b.cache.valid /\ b.cache.dirty
                   THEN flush_cache_locked(b).b ELSE b
             sectors == bufsize \div s_block_size
         IN  IF s_block_count > 0 /\ U32(lba + sectors) > s_block_count
             THEN [b |-> b1, ret |-> "ESP_ERR_INVALID_SIZE", data |-> <<>>]
             ELSE IF b1.ra.valid /\ lba >= b1.ra.lba
                     /\ U32(lba + sectors) <= U32(b1.ra.lba + b1.ra.count)
             THEN LET offset_sectors == U32(lba - b1.ra.lba)
                  IN  [b |-> b1, ret |-> "ESP_OK",
                       data |-> [i \in 0 .. (bufsize - 1) |->
                                    b1.ra.data[offset_sectors * s_block_size + i]]]
             ELSE IF sectors <= MSC_READAHEAD_SECTORS
             THEN LET remaining == U32(s_block_count - lba)
                      ra_sectors == IF s_block_count > 0 /\ remaining < MSC_READAHEAD_SECTORS
                                    THEN remaining ELSE MSC_READAHEAD_SECTORS
                  IN  IF ra_sectors = 0 \/ ra_sectors < sectors
                      THEN [b |-> b1, ret |-> "ESP_ERR_INVALID_SIZE", data |-> <<>>]
                      ELSE LET r == msc_read_sectors(b1, lba, ra_sectors)
                           IN  IF r.ret # "ESP_OK"
                               THEN [b |-> b1, ret |-> r.ret, data |-> <<>>]
                               ELSE [b |-> [b1 EXCEPT !.ra =
                                              [valid |-> TRUE, lba |-> lba, count |-> ra_sectors,
                                               data |-> [i \in DOMAIN ZeroWindow |->
                                                   IF i < ra_sectors * s_block_size
                                                   THEN r.data[i] ELSE b1.ra.data[i]]]],
                                     ret |-> "ESP_OK",
                                     data |-> [i \in 0 .. (bufsize - 1) |-> r.data[i]]]
             ELSE LET r == msc_read_sectors(b1, lba, sectors)
                  IN  [b |-> b1, ret |-> r.ret, data |-> r.data]
    ELSE msc_read_partial(b, lba, offset, bufsize)

\* the locked part of tud_msc_write10_cb
\* an aligned write that leaves the sector cache as it was
write10_locked_keep(b, lba, offset, buffer, bufsize) ==
    IF offset = 0 /\ bufsize % s_block_size = 0
    THEN LET b1 == IF b.cache.valid /\ b.cache.dirty
                   THEN flush_cache_locked(b).b ELSE b
             sectors == bufsize \div s_block_size
             ra_end == U32(b1.ra.lba + b1.ra.count)
             write_end == U32(lba + sectors)
             b3 == IF b1.ra.valid /\ lba < ra_end /\ write_end > b1.ra.lba
                   THEN [b1 EXCEPT !.ra.valid = FALSE] ELSE b1
             w == msc_write_sectors(b3, lba, buffer, sectors)
         IN  [b |-> [b3 EXCEPT !.disk = w.disk], ret |-> w.ret]
    ELSE msc_write_partial(b, lba, offset, buffer, bufsize)

write10_locked(b, lba, offset, buffer, bufsize) ==
    IF offset = 0 /\ bufsize % s_block_size = 0
    THEN LET b1 == IF b.cache.valid /\ b.cache.dirty
                   THEN flush_cache_locked(b).b ELSE b
             sectors == bufsize \div s_block_size
             b2 == IF b1.cache.valid /\ b1.cache.lba >= lba
                      /\ b1.cache.lba < U32(lba + sectors)
                   THEN [b1 EXCEPT !.cache.valid = FALSE] ELSE b1
             ra_end == U32(b2.ra.lba + b2.ra.count)
             write_end == U32(lba + sectors)
             b3 == IF b2.ra.valid /\ lba < ra_end /\ write_end > b2.ra.lba
                   THEN [b2 EXCEPT !.ra.valid = FALSE] ELSE b2
             w == msc_write_sectors(b3, lba, buffer, sectors)
         IN  [b |-> [b3 EXCEPT !.disk = w.disk], ret |-> w.ret]
    ELSE msc_write_partial(b, lba, offset, buffer, bufsize)

\* ------------------------------------------------------------- arbiter
NoReq == [op |-> "none", lba |-> 0, offset |-> 0, bufsize |-> 0, buffer |-> <<>>]
NoRead == [ret |-> "none", data |-> <<>>, expect |-> <<>>]

\* the block state msc_enable leaves: RAM disk allocated and formatted on
\* first use, both caches zeroed
msc_enable(b) ==
    [disk |-> IF b.ready THEN b.disk ELSE ramdisk_format,
     ready |-> TRUE, fault |-> b.fault, cache |-> EmptyCache, ra |-> EmptyReadAhead]

\* esp_err_t msc_init(void), called once from app_main
msc_init(outcome) ==
    /\ booted = "no"
    /\ booted' = IF outcome = "ESP_OK" THEN "cli" ELSE "halted"
    /\ s_mode' = "SDCARD_MODE_USB"
    /\ IF outcome = "ESP_OK"
       THEN /\ blk' = msc_enable(blk)
            /\ s_usb_installed' = TRUE
            /\ s_media_present' = TRUE
            /\ s_unit_attention' = FALSE
            /\ s_state' = "USB_ATTACHED"
            /\ shadow' = blk'.disk
       ELSE /\ s_state' = "ERROR"
            /\ blk' = IF outcome = "ESP_FAIL" THEN msc_enable(blk) ELSE blk
            /\ UNCHANGED <<s_usb_installed, s_media_present, s_unit_attention, shadow>>
    /\ UNCHANGED <<usbVars, s_mounted, s_fs_mutex, s_sdtest_task, lockVars, httpVars,
                   upVars, np, last_read, uaVars>>

\* a handler sends its response and returns to the server
Reply(t, r) ==
    /\ resp' = [resp EXCEPT ![t] = r]
    /\ pc' = [pc EXCEPT ![t] = "done"]

Goto(t, l) == pc' = [pc EXCEPT ![t] = l]

\* the server task picks up the next request
HttpRecv(t, kind) ==
    /\ booted # "no"
    /\ pc[t] = "idle"
    /\ req' = [req EXCEPT ![t] = kind]
    /\ Goto(t, IF kind \in {"attach", "detach"} THEN "is_busy" ELSE "gate")
    /\ UNCHANGED <<mscVars, blk, usbVars, sdVars, lockVars, resp, booted, upVars, np, obsVars>>

HttpReturn(t) ==
    /\ pc[t] = "done"
    /\ pc' = [pc EXCEPT ![t] = "idle"]
    /\ req' = [req EXCEPT ![t] = "none"]
    /\ resp' = [resp EXCEPT ![t] = "none"]
    /\ UNCHANGED <<mscVars, blk, usbVars, sdVars, lockVars, booted, upVars, np, obsVars>>

\* fs_gate, first test: msc_get_state() == MSC_STATE_USB_ATTACHED
fs_gate_state(t) ==
    /\ pc[t] = "gate"
    /\ IF s_state = "USB_ATTACHED"
       THEN Reply(t, "423 BUSY")
       ELSE Goto(t, "gate_mounted") /\ UNCHANGED resp
    /\ UNCHANGED <<mscVars, blk, usbVars, sdVars, lockVars, req, booted, upVars, np, obsVars>>

\* a gate without its second test
fs_gate_unchecked(t) ==
    /\ pc[t] = "gate_mounted"
    /\ Goto(t, IF req[t] = "download" THEN "download_stat" ELSE "lock_check")
    /\ UNCHANGED <<mscVars, blk, usbVars, sdVars, lockVars, req, resp, booted, upVars, np, obsVars>>

\* fs_gate, second test: !sdcard_is_mounted()
fs_gate_mounted(t) ==
    /\ pc[t] = "gate_mounted"
    /\ IF ~s_mounted
       THEN Reply(t, "409 NOT_MOUNTED")
       ELSE /\ Goto(t, IF req[t] = "download" THEN "download_stat" ELSE "lock_check")
            /\ UNCHANGED resp
    /\ UNCHANGED <<mscVars, blk, usbVars, sdVars, lockVars, req, booted, upVars, np, obsVars>>

\* http_fs_download after the gate (http_fs_list has the same shape, with
\* opendir and readdir): stat(full_path), without the FsOpLock
http_fs_download_stat(t) ==
    /\ pc[t] = "download_stat"
    /\ IF s_mounted /\ files.final.exists
       THEN Goto(t, "download_read") /\ UNCHANGED resp
       ELSE Reply(t, "404 NOT_FOUND")
    /\ UNCHANGED <<mscVars, blk, usbVars, sdVars, lockVars, req, booted, upVars, np, obsVars>>

\* http_fs_download: fopen, the fread loop and fclose
http_fs_download_read(t) ==
    /\ pc[t] = "download_read"
    /\ Reply(t, IF s_mounted THEN "200 file" ELSE "500 OPEN_FAIL")
    /\ UNCHANGED <<mscVars, blk, usbVars, sdVars, lockVars, req, booted, upVars, np, obsVars>>

\* fileop_try_lock: if (!s_fileop_mutex)
fileop_try_lock_check(t) ==
    /\ pc[t] = "lock_check"
    /\ Goto(t, IF s_fileop_mutex = 0 THEN "lock_create" ELSE "lock_take")
    /\ UNCHANGED <<mscVars, blk, usbVars, sdVars, lockVars, req, resp, booted, upVars, np, obsVars>>

\* fileop_try_lock: s_fileop_mutex = xSemaphoreCreateMutex(); the mutex a
\* thread creates is named by the thread.  Allocation failure is taken only
\* while the handle is still NULL.
fileop_try_lock_create(t, ok) ==
    /\ pc[t] = "lock_create"
    /\ IF ok
       THEN /\ s_fileop_mutex' = t
            /\ Goto(t, "lock_take")
            /\ UNCHANGED resp
       ELSE /\ s_fileop_mutex = 0
            /\ Reply(t, "500 NO_MEM")
            /\ UNCHANGED s_fileop_mutex
    /\ UNCHANGED <<mscVars, blk, usbVars, sdVars, fileop_holder, req, booted, upVars, np, obsVars>>

\* fileop_try_lock: xSemaphoreTake(s_fileop_mutex, 0)
fileop_try_lock_take(t) ==
    /\ pc[t] = "lock_take"
    /\ IF fileop_holder[s_fileop_mutex] = 0
       THEN /\ fileop_holder' = [fileop_holder EXCEPT ![s_fileop_mutex] = t]
            /\ Goto(t, "body_open")
            /\ UNCHANGED resp
       ELSE /\ Reply(t, "423 FILEOP_IN_PROGRESS")
            /\ UNCHANGED fileop_holder
    /\ UNCHANGED <<mscVars, blk, usbVars, sdVars, s_fileop_mutex, req, booted, upVars, np, obsVars>>

\* the handler body between fileop_try_lock and cleanup, seen from the
\* arbiter: its first filesystem call (fopen of the .part file) ...
handler_open(t) ==
    /\ pc[t] = "body_open"
    /\ IF s_mounted
       THEN Goto(t, "body_rename") /\ UNCHANGED resp
       ELSE /\ resp' = [resp EXCEPT ![t] = "500 OPEN_FAIL"]
            /\ Goto(t, "unlock")
    /\ UNCHANGED <<mscVars, blk, usbVars, sdVars, lockVars, req, booted, upVars, np, obsVars>>

\* ... and its last one (rename of the .part file to the target)
handler_rename(t) ==
    /\ pc[t] = "body_rename"
    /\ resp' = [resp EXCEPT ![t] = IF s_mounted THEN "200 ok" ELSE "500 RENAME_FAIL"]
    /\ Goto(t, "unlock")
    /\ UNCHANGED <<mscVars, blk, usbVars, sdVars, lockVars, req, booted, upVars, np, obsVars>>

\* fileop_unlock: xSemaphoreGive on whatever s_fileop_mutex points to now
fileop_unlock(t) ==
    /\ pc[t] = "unlock"
    /\ fileop_holder' = [fileop_holder EXCEPT ![s_fileop_mutex] = 0]
    /\ Goto(t, "done")
    /\ UNCHANGED <<mscVars, blk, usbVars, sdVars, s_fileop_mutex, req, resp, booted,
                   upVars, np, obsVars>>

AfterBusy(t) == IF req[t] = "attach" THEN "attach_state" ELSE "detach_state"

\* a busy test that gives the mutex it failed to take
web_fs_is_busy_release(t) ==
    /\ pc[t] = "is_busy"
    /\ IF s_fileop_mutex = 0
       THEN Goto(t, AfterBusy(t)) /\ UNCHANGED <<resp, fileop_holder>>
       ELSE IF fileop_holder[s_fileop_mutex] = 0
       THEN /\ fileop_holder' = [fileop_holder EXCEPT ![s_fileop_mutex] = t]
            /\ Goto(t, "is_busy_give")
            /\ UNCHANGED resp
       ELSE /\ Reply(t, "423 FILEOP_IN_PROGRESS")
            /\ fileop_holder' = [fileop_holder EXCEPT ![s_fileop_mutex] = 0]
    /\ UNCHANGED <<mscVars, blk, usbVars, sdVars, s_fileop_mutex, req, booted, upVars, np, obsVars>>

\* web_fs_is_busy: NULL test and xSemaphoreTake(s_fileop_mutex, 0)
web_fs_is_busy_take(t) ==
    /\ pc[t] = "is_busy"
    /\ IF s_fileop_mutex = 0
       THEN Goto(t, AfterBusy(t)) /\ UNCHANGED <<resp, fileop_holder>>
       ELSE IF fileop_holder[s_fileop_mutex] = 0
       THEN /\ fileop_holder' = [fileop_holder EXCEPT ![s_fileop_mutex] = t]
            /\ Goto(t, "is_busy_give")
            /\ UNCHANGED resp
       ELSE Reply(t, "423 FILEOP_IN_PROGRESS") /\ UNCHANGED fileop_holder
    /\ UNCHANGED <<mscVars, blk, usbVars, sdVars, s_fileop_mutex, req, booted, upVars, np, obsVars>>

\* web_fs_is_busy: xSemaphoreGive and return false
web_fs_is_busy_give(t) ==
    /\ pc[t] = "is_busy_give"
    /\ fileop_holder' = [fileop_holder EXCEPT ![s_fileop_mutex] = 0]
    /\ Goto(t, AfterBusy(t))
    /\ UNCHANGED <<mscVars, blk, usbVars, sdVars, s_fileop_mutex, req, resp, booted,
                   upVars, np, obsVars>>

\* sdcard_lock blocks while another task holds the recursive mutex
SdLockFree(t) == s_fs_mutex \in {0, t}

\* an attach that raises the unit attention again when already attached
msc_attach_state_raise(t) ==
    /\ pc[t] = "attach_state"
    /\ IF s_state = "USB_ATTACHED"
       THEN Reply(t, "200 ATTACHED") /\ s_unit_attention' = TRUE
       ELSE Goto(t, "attach_unmount") /\ UNCHANGED <<resp, s_unit_attention>>
    /\ UNCHANGED <<s_state, s_media_present, s_usb_installed, blk, usbVars, sdVars, lockVars,
                   req, booted, upVars, np, obsVars>>

\* msc_attach: if (s_state == MSC_STATE_USB_ATTACHED) return ESP_OK
msc_attach_state(t) ==
    /\ pc[t] = "attach_state"
    /\ IF s_state = "USB_ATTACHED"
       THEN Reply(t, "200 ATTACHED")
       ELSE Goto(t, "attach_unmount") /\ UNCHANGED resp
    /\ UNCHANGED <<mscVars, blk, usbVars, sdVars, lockVars, req, booted, upVars, np, obsVars>>

\* msc_attach: if (sdcard_is_mounted()) sdcard_unmount()
msc_attach_unmount(t, ok) ==
    /\ pc[t] = "attach_unmount"
    /\ IF s_mounted
       THEN /\ SdLockFree(t)
            /\ s_mounted' = FALSE
            /\ IF ok
               THEN Goto(t, "attach_enable") /\ UNCHANGED resp
               ELSE Reply(t, "200 ATTACH_FAIL")
       ELSE /\ ok
            /\ Goto(t, "attach_enable")
            /\ UNCHANGED <<resp, s_mounted>>
    /\ UNCHANGED <<mscVars, blk, usbVars, s_fs_mutex, s_sdtest_task, s_mode, lockVars,
                   req, booted, upVars, np, obsVars>>

\* msc_attach: sdcard_set_mode(SDCARD_MODE_USB); msc_enable()
msc_attach_enable(t, outcome) ==
    /\ pc[t] = "attach_enable"
    /\ s_mode' = "SDCARD_MODE_USB"
    /\ IF outcome = "ESP_OK"
       THEN /\ blk' = msc_enable(blk)
            /\ s_usb_installed' = TRUE
            /\ shadow' = blk'.disk
            /\ Goto(t, "attach_media")
            /\ UNCHANGED resp
       ELSE /\ outcome = "ESP_ERR_NO_MEM" => ~blk.ready
            /\ outcome = "ESP_FAIL" => ~s_usb_installed
            /\ blk' = IF outcome = "ESP_FAIL" THEN msc_enable(blk) ELSE blk
            /\ Reply(t, "200 ATTACH_FAIL")
            /\ UNCHANGED <<s_usb_installed, shadow>>
    /\ UNCHANGED <<s_state, s_media_present, s_unit_attention, usbVars, s_mounted,
                   s_fs_mutex, s_sdtest_task, lockVars, req, booted, upVars, np,
                   last_read, uaVars>>

\* msc_attach: s_media_present = true
msc_attach_media(t) ==
    /\ pc[t] = "attach_media"
    /\ s_media_present' = TRUE
    /\ Goto(t, "attach_attention")
    /\ UNCHANGED <<s_state, s_unit_attention, s_usb_installed, blk, usbVars, sdVars,
                   lockVars, req, resp, booted, upVars, np, obsVars>>

\* msc_attach: s_unit_attention = true
msc_attach_attention(t) ==
    /\ pc[t] = "attach_attention"
    /\ s_unit_attention' = TRUE
    /\ Goto(t, "attach_publish")
    /\ UNCHANGED <<s_state, s_media_present, s_usb_installed, blk, usbVars, sdVars,
                   lockVars, req, resp, booted, upVars, np, obsVars>>

\* msc_attach: set_state(MSC_STATE_USB_ATTACHED); return ESP_OK
msc_attach_publish(t) ==
    /\ pc[t] = "attach_publish"
    /\ s_state' = "USB_ATTACHED"
    /\ ua_chance' = IF s_state # "USB_ATTACHED" THEN "open" ELSE ua_chance
    /\ Reply(t, "200 ATTACHED")
    /\ UNCHANGED <<s_media_present, s_unit_attention, s_usb_installed, blk, usbVars,
                   sdVars, lockVars, req, booted, upVars, np, shadow, last_read, ua_reports>>

\* msc_detach: if (s_state == MSC_STATE_USB_DETACHED) return ESP_OK
msc_detach_state(t) ==
    /\ pc[t] = "detach_state"
    /\ IF s_state = "USB_DETACHED"
       THEN Reply(t, "200 DETACHED")
       ELSE Goto(t, "detach_disable") /\ UNCHANGED resp
    /\ UNCHANGED <<mscVars, blk, usbVars, sdVars, lockVars, req, booted, upVars, np, obsVars>>

\* msc_disable: flush and drop both caches under the block-device lock
msc_disable(b) ==
    [flush_cache_locked(b).b EXCEPT !.cache.valid = FALSE, !.ra.valid = FALSE]

msc_detach_disable(t) ==
    /\ pc[t] = "detach_disable"
    /\ IF s_usb_installed
       THEN SdLockFree(t) /\ blk' = msc_disable(blk)
       ELSE UNCHANGED blk
    /\ Goto(t, "detach_media")
    /\ UNCHANGED <<mscVars, usbVars, sdVars, lockVars, req, resp, booted, upVars, np, obsVars>>

\* msc_detach: s_media_present = false
msc_detach_media(t) ==
    /\ pc[t] = "detach_media"
    /\ s_media_present' = FALSE
    /\ Goto(t, "detach_attention")
    /\ UNCHANGED <<s_state, s_unit_attention, s_usb_installed, blk, usbVars, sdVars,
                   lockVars, req, resp, booted, upVars, np, obsVars>>

\* msc_detach: s_unit_attention = false; sdcard_set_mode(SDCARD_MODE_APP);
\* vTaskDelay
msc_detach_attention(t) ==
    /\ pc[t] = "detach_attention"
    /\ s_unit_attention' = FALSE
    /\ s_mode' = "SDCARD_MODE_APP"
    /\ ua_reports' = 0
    /\ ua_chance' = "closed"
    /\ Goto(t, "detach_mount")
    /\ UNCHANGED <<s_state, s_media_present, s_usb_installed, blk, usbVars, s_mounted,
                   s_fs_mutex, s_sdtest_task, lockVars, req, resp, booted, upVars, np,
                   shadow, last_read>>

\* sdcard_mount: under the lock, mount unless already mounted
sdcard_mount(mounted, ok) == mounted \/ ok

\* msc_detach: if (sdcard_mount() != ESP_OK) { set_state(ERROR); return ESP_FAIL; }
msc_detach_mount(t, ok) ==
    /\ pc[t] = "detach_mount"
    /\ SdLockFree(t)
    /\ s_mounted => ok
    /\ s_mounted' = sdcard_mount(s_mounted, ok)
    /\ IF s_mounted'
       THEN Goto(t, "detach_publish") /\ UNCHANGED <<resp, s_state>>
       ELSE s_state' = "ERROR" /\ Reply(t, "200 DETACH_FAIL")
    /\ UNCHANGED <<s_media_present, s_unit_attention, s_usb_installed, blk, usbVars,
                   s_fs_mutex, s_sdtest_task, s_mode, lockVars, req, booted, upVars, np,
                   obsVars>>

\* msc_detach: set_state(MSC_STATE_USB_DETACHED); return ESP_OK
msc_detach_publish(t) ==
    /\ pc[t] = "detach_publish"
    /\ s_state' = "USB_DETACHED"
    /\ Reply(t, "200 DETACHED")
    /\ UNCHANGED <<s_media_present, s_unit_attention, s_usb_installed, blk, usbVars,
                   sdVars, lockVars, req, booted, upVars, np, obsVars>>

\* ------------------------------------------------ background self-test
\* sdcard_self_test, from the CLI's sdtest command: refuse while a test
\* runs, else create the task
sdcard_self_test ==
    /\ booted = "cli"
    /\ s_sdtest_task = "NULL"
    /\ s_sdtest_task' = "lock"
    /\ UNCHANGED <<mscVars, blk, usbVars, s_mounted, s_fs_mutex, s_mode, lockVars, httpVars,
                   booted, upVars, np, obsVars>>

\* sdcard_run_self_test: sdcard_lock(); with a frequency argument
\* sdcard_set_frequency unmounts a mounted filesystem to remount it
sdtest_lock(freq_khz) ==
    /\ s_sdtest_task = "lock"
    /\ s_fs_mutex = 0
    /\ s_fs_mutex' = SDTEST_TASK
    /\ IF freq_khz # 0 /\ s_mounted
       THEN s_mounted' = FALSE /\ s_sdtest_task' = "remount"
       ELSE s_sdtest_task' = "mount" /\ UNCHANGED s_mounted
    /\ UNCHANGED <<mscVars, blk, usbVars, s_mode, lockVars, httpVars, booted, upVars, np, obsVars>>

\* sdcard_set_frequency: err = mount_filesystem(); an error ends the test
sdtest_remount(ok) ==
    /\ s_sdtest_task = "remount"
    /\ IF ok
       THEN s_mounted' = TRUE /\ s_sdtest_task' = "mount" /\ UNCHANGED s_fs_mutex
       ELSE s_fs_mutex' = 0 /\ s_sdtest_task' = "NULL" /\ UNCHANGED s_mounted
    /\ UNCHANGED <<mscVars, blk, usbVars, s_mode, lockVars, httpVars, booted, upVars, np, obsVars>>

\* sdcard_run_self_test: ret = sdcard_mount(); an error ends the test
sdtest_mount(ok) ==
    /\ s_sdtest_task = "mount"
    /\ s_mounted => ok
    /\ s_mounted' = sdcard_mount(s_mounted, ok)
    /\ IF s_mounted'
       THEN s_sdtest_task' = "io" /\ UNCHANGED s_fs_mutex
       ELSE s_fs_mutex' = 0 /\ s_sdtest_task' = "NULL"
    /\ UNCHANGED <<mscVars, blk, usbVars, s_mode, lockVars, httpVars, booted, upVars, np, obsVars>>

\* sdcard_run_self_test: write, read back and unlink the test file, then
\* sdcard_unlock(); the task clears s_sdtest_task and deletes itself
sdtest_io ==
    /\ s_sdtest_task = "io"
    /\ s_fs_mutex' = 0
    /\ s_sdtest_task' = "NULL"
    /\ UNCHANGED <<mscVars, blk, usbVars, s_mounted, s_mode, lockVars, httpVars, booted,
                   upVars, np, obsVars>>

\* -------------------------------------------------- TinyUSB callbacks
media_ready == s_media_present /\ storage_ready(blk)

\* the callbacks run on the USB task, one at a time, once the driver is
\* installed
UsbIdle == s_usb_installed /\ usb_req.op = "none"

\* observer: unit attentions reported since the last detach, and whether
\* the host has asked a checking command in a session opened by an attach
UaObserve ==
    /\ ua_reports' = IF s_media_present /\ s_unit_attention
                     THEN Min(ua_reports + 1, MaxUaReports) ELSE ua_reports
    /\ ua_chance' = IF s_media_present /\ ua_chance = "open" THEN "asked" ELSE ua_chance

\* the two tests every checking callback starts with
Refused == ~s_media_present \/ s_unit_attention

\* ... and what a refused callback does: sense NOT_READY 3A/00 and return
\* failure, or sense UNIT_ATTENTION 28/00 with the flag still to be cleared
Refuse ==
    /\ sense' = IF ~s_media_present THEN "NOT_READY 3A/00" ELSE "UNIT_ATTENTION 28/00"
    /\ IF ~s_media_present
       THEN usb_ret' = "fail" /\ UNCHANGED usb_req
       ELSE usb_req' = [NoReq EXCEPT !.op = "unit_attention"] /\ UNCHANGED usb_ret
    /\ UNCHANGED s_unit_attention

\* s_unit_attention = false; return failure.  The flag is a plain bool the
\* USB task and msc_attach / msc_detach write without a lock, so this store
\* is a step of its own after the test and tud_msc_set_sense
unit_attention_clear ==
    /\ usb_req.op = "unit_attention"
    /\ s_unit_attention' = FALSE
    /\ usb_ret' = "fail"
    /\ usb_req' = NoReq
    /\ UNCHANGED <<s_state, s_media_present, s_usb_installed, blk, sense, sdVars, lockVars,
                   httpVars, booted, upVars, np, obsVars>>

\* every callback leaves these alone; the observer forgets the previous read
cbFrame ==
    /\ last_read' = NoRead
    /\ UNCHANGED <<s_state, s_media_present, s_usb_installed, blk, sdVars, lockVars,
                   httpVars, booted, upVars, np, shadow>>

tud_msc_test_unit_ready_cb ==
    /\ UsbIdle
    /\ UaObserve
    /\ IF Refused
       THEN Refuse
       ELSE /\ sense' = "none"
            /\ usb_ret' = IF storage_ready(blk) THEN "ok" ELSE "fail"
            /\ UNCHANGED <<usb_req, s_unit_attention>>
    /\ cbFrame

\* tud_msc_read10_cb / tud_msc_write10_cb up to lock_io()
Transfer(op, lba, offset, buffer, bufsize) ==
    IF Refused
    THEN Refuse
    ELSE IF ~storage_ready(blk)
    THEN sense' = "none" /\ usb_ret' = "fail" /\ UNCHANGED <<usb_req, s_unit_attention>>
    ELSE /\ usb_req' = [op |-> op, lba |-> lba, offset |-> offset,
                        bufsize |-> bufsize, buffer |-> buffer]
         /\ UNCHANGED <<sense, usb_ret, s_unit_attention>>

tud_msc_read10_cb(lba, offset, bufsize) ==
    /\ UsbIdle
    /\ UaObserve
    /\ Transfer("read10", lba, offset, <<>>, bufsize)
    /\ cbFrame

tud_msc_write10_cb(lba, offset, buffer, bufsize) ==
    /\ UsbIdle
    /\ UaObserve
    /\ Transfer("write10", lba, offset, buffer, bufsize)
    /\ cbFrame

\* the positions of a transfer that lie on the medium
InRange(lba, offset, bufsize) == lba * s_block_size + offset + bufsize <= s_ramdisk_size

\* a Read10 that returns without unlock_io()
read10_body_keep ==
    /\ usb_req.op = "read10"
    /\ SdLockFree(USB_TASK)
    /\ LET r == read10_locked(blk, usb_req.lba, usb_req.offset, usb_req.bufsize)
           at == usb_req.lba * s_block_size + usb_req.offset
       IN  /\ blk' = r.b
           /\ usb_ret' = IF r.ret = "ESP_OK" THEN "ok" ELSE "fail"
           /\ sense' = IF r.ret = "ESP_OK" THEN "none" ELSE "MEDIUM_ERROR 11/00"
           /\ last_read' = [ret |-> r.ret, data |-> r.data,
                            expect |-> IF r.ret = "ESP_OK"
                                          /\ InRange(usb_req.lba, usb_req.offset, usb_req.bufsize)
                                       THEN [i \in 0 .. (usb_req.bufsize - 1) |-> shadow[at + i]]
                                       ELSE r.data]
    /\ usb_req' = NoReq
    /\ s_fs_mutex' = USB_TASK
    /\ UNCHANGED <<mscVars, s_mounted, s_sdtest_task, s_mode, lockVars, httpVars, booted,
                   upVars, np, shadow, uaVars>>

\* tud_msc_read10_cb from lock_io() to its return
read10_body ==
    /\ usb_req.op = "read10"
    /\ SdLockFree(USB_TASK)
    /\ LET r == read10_locked(blk, usb_req.lba, usb_req.offset, usb_req.bufsize)
           at == usb_req.lba * s_block_size + usb_req.offset
       IN  /\ blk' = r.b
           /\ usb_ret' = IF r.ret = "ESP_OK" THEN "ok" ELSE "fail"
           /\ sense' = IF r.ret = "ESP_OK" THEN "none" ELSE "MEDIUM_ERROR 11/00"
           /\ last_read' = [ret |-> r.ret, data |-> r.data,
                            expect |-> IF r.ret = "ESP_OK"
                                          /\ InRange(usb_req.lba, usb_req.offset, usb_req.bufsize)
                                       THEN [i \in 0 .. (usb_req.bufsize - 1) |-> shadow[at + i]]
                                       ELSE r.data]
    /\ usb_req' = NoReq
    /\ UNCHANGED <<mscVars, sdVars, lockVars, httpVars, booted, upVars, np, shadow, uaVars>>

\* tud_msc_write10_cb from lock_io() to its return
write10_body ==
    /\ usb_req.op = "write10"
    /\ SdLockFree(USB_TASK)
    /\ LET w == write10_locked(blk, usb_req.lba, usb_req.offset, usb_req.buffer, usb_req.bufsize)
           at == usb_req.lba * s_block_size + usb_req.offset
       IN  /\ blk' = w.b
           /\ usb_ret' = IF w.ret = "ESP_OK" THEN "ok" ELSE "fail"
           /\ sense' = IF w.ret = "ESP_OK" THEN "none" ELSE "MEDIUM_ERROR 03/00"
           /\ shadow' = IF w.ret = "ESP_OK"
                           /\ InRange(usb_req.lba, usb_req.offset, usb_req.bufsize)
                        THEN [i \in DOMAIN shadow |->
                                 IF i >= at /\ i < at + usb_req.bufsize
                                 THEN usb_req.buffer[i - at] ELSE shadow[i]]
                        ELSE shadow
    /\ usb_req' = NoReq
    /\ UNCHANGED <<mscVars, sdVars, lockVars, httpVars, booted, upVars, np, last_read, uaVars>>

\* tud_msc_scsi_cb
tud_msc_scsi_cb(cmd, bufsize_ok) ==
    /\ UsbIdle
    /\ UaObserve
    /\ IF Refused
       THEN Refuse
       ELSE /\ UNCHANGED s_unit_attention
            /\ IF cmd \in {"PREVENT_ALLOW_MEDIUM_REMOVAL", "SYNCHRONIZE_CACHE_10"}
               THEN /\ usb_req' = [NoReq EXCEPT !.op = "flush"]
                    /\ UNCHANGED <<sense, usb_ret>>
               ELSE /\ UNCHANGED usb_req
                    /\ IF cmd \in {"READ_FORMAT_CAPACITIES", "MODE_SENSE_6", "MODE_SENSE_10"}
                       THEN IF ~media_ready
                            THEN sense' = "NOT_READY 3A/00" /\ usb_ret' = "fail"
                            ELSE sense' = "none"
                                 /\ usb_ret' = IF bufsize_ok THEN "ok" ELSE "fail"
                       ELSE IF cmd = "TEST_UNIT_READY"
                       THEN sense' = "none" /\ usb_ret' = IF media_ready THEN "ok" ELSE "fail"
                       ELSE IF cmd = "START_STOP_UNIT"
                       THEN sense' = "none" /\ usb_ret' = "ok"
                       ELSE sense' = "ILLEGAL_REQUEST 20/00" /\ usb_ret' = "fail"
    /\ cbFrame

\* tud_msc_flush_cb, up to lock_io()
tud_msc_flush_cb ==
    /\ UsbIdle
    /\ usb_req' = [NoReq EXCEPT !.op = "flush"]
    /\ UNCHANGED <<mscVars, blk, usb_ret, sense, sdVars, lockVars, httpVars, booted, upVars,
                   np, obsVars>>

\* lock_io(); flush_cache_locked(); unlock_io(); return success
flush_body ==
    /\ usb_req.op = "flush"
    /\ SdLockFree(USB_TASK)
    /\ blk' = flush_cache_locked(blk).b
    /\ usb_ret' = "ok"
    /\ sense' = "none"
    /\ usb_req' = NoReq
    /\ UNCHANGED <<mscVars, sdVars, lockVars, httpVars, booted, upVars, np, obsVars>>

\* tud_msc_capacity_cb: block count 0 unless the medium is ready
tud_msc_capacity_cb ==
    /\ UsbIdle
    /\ usb_ret' = IF media_ready THEN "capacity" ELSE "capacity 0"
    /\ sense' = "none"
    /\ UNCHANGED <<mscVars, blk, usb_req, sdVars, lockVars, httpVars, booted, upVars, np, obsVars>>

\* ------------------------------------------------------ upload pipeline
Absent == [exists |-> FALSE, dir |-> FALSE, data |-> <<>>]
\* what stat reports with S_ISDIR(st.st_mode)
Directory == [exists |-> TRUE, dir |-> TRUE, data |-> <<>>]

UpIdle == [pc |-> "idle", kind |-> "none", body |-> <<>>, overwrite |-> FALSE,
           header_buf |-> <<>>, tail |-> <<>>, chunk |-> <<>>, next |-> "idle",
           ctx_started |-> FALSE, upload_ok |-> FALSE, tmp_path |-> "", fp |-> FALSE,
           wire |-> <<>>, before |-> Absent, first_recv |-> 0, pushed |-> <<>>,
           done |-> FALSE]

\* upload_ctx_t ctx = {0}; task is where upload_writer_task stands
CtxZero == [rb |-> <<>>, done_sem |-> "NULL", fp |-> FALSE, input_done |-> FALSE,
            result |-> "ESP_OK", task |-> "none"]

arbFrame == <<mscVars, blk, usbVars, sdVars, lockVars, booted, np, obsVars>>

RECURSIVE SumLen(_)
SumLen(q) == IF q = <<>> THEN 0 ELSE Len(Head(q)) + SumLen(Tail(q))

Prefix(q, n) == SubSeq(q, 1, n)
Suffix(q, n) == SubSeq(q, n + 1, Len(q))

\* find_seq: 1-based position of the first occurrence of seq in buf, 0 for NULL
find_seq(buf, seq) ==
    IF Len(seq) = 0 \/ Len(buf) < Len(seq)
    THEN 0
    ELSE LET hits == {i \in 1 .. (Len(buf) - Len(seq) + 1) :
                         SubSeq(buf, i, i + Len(seq) - 1) = seq}
         IN  IF hits = {} THEN 0 ELSE CHOOSE i \in hits : \A j \in hits : i <= j

CR == "\r"
LF == "\n"

\* find_header_end: CRLFCRLF first, else LFLF
find_header_end(buf) ==
    LET p4 == find_seq(buf, <<CR, LF, CR, LF>>)
        p2 == find_seq(buf, <<LF, LF>>)
    IN  IF p4 # 0 THEN [pos |-> p4, mark |-> 4] ELSE [pos |-> p2, mark |-> 2]

\* the handler sends an error response and jumps to cleanup
UploadFail(t, r) ==
    /\ resp' = [resp EXCEPT ![t] = r]
    /\ UNCHANGED <<pc, req>>

\* the handler is past fileop_try_lock: locals zeroed, request taken in.
\* char tmp_path[MAX_PATH_LEN] = {0} is declared further down, and every goto
\* cleanup above the declaration skips its initialiser: until then the array
\* holds whatever the stack held
upload_begin(t, kind, body, overwrite) ==
    /\ pc[t] = "body_open"
    /\ up.pc = "idle"
    /\ up' = [UpIdle EXCEPT !.pc = "parse", !.kind = kind, !.body = body,
                            !.overwrite = overwrite, !.wire = body,
                            !.before = files.final, !.tmp_path = "indeterminate"]
    /\ ctx' = CtxZero
    /\ pc' = [pc EXCEPT ![t] = "body"]
    /\ UNCHANGED <<arbFrame, req, resp, files>>

\* buffers, query path, name (raw) or Content-Type boundary (multipart);
\* http_fs_upload declares tmp_path right after
upload_parse(t, err) ==
    /\ pc[t] = "body"
    /\ up.pc = "parse"
    /\ IF err = "none"
       THEN /\ up' = [up EXCEPT !.pc = IF up.kind = "raw" THEN "prepare" ELSE "header",
                                !.tmp_path = IF up.kind = "raw" THEN @ ELSE ""]
            /\ UNCHANGED <<pc, req, resp>>
       ELSE /\ up' = [up EXCEPT !.pc = "cleanup"]
            /\ UploadFail(t, err)
    /\ UNCHANGED <<arbFrame, ctx, files>>

\* from stat(full_path) to ctx_started = true: the existing target is
\* unlinked when overwrite is set, the stale staging file is unlinked, the
\* staging file is opened and the writer task started
upload_prepare(t, err) ==
    /\ pc[t] = "body"
    /\ up.pc = "prepare"
    /\ LET exists == files.final.exists
           refused == exists /\ ~up.overwrite
           unlinked == exists /\ up.overwrite /\ err # "500 DELETE_FAIL"
           final1 == IF unlinked THEN Absent ELSE files.final
           nobody == up.kind = "raw" /\ Len(up.wire) = 0
       IN  IF err \in {"400 NO_FILENAME", "400 BAD_NAME"}
           THEN /\ up.kind = "multipart"
                /\ up' = [up EXCEPT !.pc = "cleanup"]
                /\ UploadFail(t, err)
                /\ UNCHANGED <<files, ctx>>
           ELSE IF exists /\ files.final.dir
           THEN /\ err = "none"
                /\ up' = [up EXCEPT !.pc = "cleanup"]
                /\ UploadFail(t, "409 IS_DIRECTORY")
                /\ UNCHANGED <<files, ctx>>
           ELSE IF refused
           THEN /\ err = "none"
                /\ up' = [up EXCEPT !.pc = "cleanup"]
                /\ UploadFail(t, "409 FILE_EXISTS")
                /\ UNCHANGED <<files, ctx>>
           ELSE IF err = "500 DELETE_FAIL"
           THEN /\ exists
                /\ up' = [up EXCEPT !.pc = "cleanup"]
                /\ UploadFail(t, err)
                /\ UNCHANGED <<files, ctx>>
           ELSE IF nobody
           THEN /\ err = "none"
                /\ files' = [final |-> final1, part |-> Absent]
                /\ up' = [up EXCEPT !.pc = "cleanup", !.tmp_path = "set"]
                /\ UploadFail(t, "400 NO_BODY")
                /\ UNCHANGED ctx
           ELSE IF err = "500 OPEN_FAIL"
           THEN /\ files' = [final |-> final1, part |-> Absent]
                /\ up' = [up EXCEPT !.pc = "cleanup", !.tmp_path = "set"]
                /\ UploadFail(t, err)
                /\ UNCHANGED ctx
           ELSE IF err = "500 NO_MEM"
           THEN /\ files' = [final |-> final1, part |-> [exists |-> TRUE, dir |-> FALSE, data |-> <<>>]]
                /\ up' = [up EXCEPT !.pc = "cleanup", !.tmp_path = "set", !.fp = TRUE]
                /\ ctx' = [ctx EXCEPT !.fp = TRUE]
                /\ UploadFail(t, err)
           ELSE /\ err = "none"
                /\ files' = [final |-> final1, part |-> [exists |-> TRUE, dir |-> FALSE, data |-> <<>>]]
                /\ up' = [up EXCEPT !.pc = IF up.kind = "raw" THEN "recv" ELSE "first",
                                    !.tmp_path = "set", !.fp = TRUE, !.ctx_started = TRUE]
                /\ ctx' = [ctx EXCEPT !.fp = TRUE, !.done_sem = "empty", !.task = "receive"]
                /\ UNCHANGED <<pc, req, resp>>
    /\ UNCHANGED arbFrame

\* httpd_req_recv delivers between 1 and to_read bytes; n = 0 stands for
\* an error return (r <= 0)
RecvSizes(body) == 0 .. Min(Len(body), UPLOAD_RECV_BUF_SIZE)

\* char boundary_marker[80]: "\r\n--" followed by the boundary
Boundary == <<"X">>
boundary_marker == <<CR, LF, "-", "-">> \o Boundary

\* http_fs_upload_raw: one turn of while (remaining > 0)
raw_recv(t, n) ==
    /\ pc[t] = "body"
    /\ up.pc = "recv"
    /\ IF Len(up.body) = 0
       THEN /\ n = 0
            /\ up' = [up EXCEPT !.pc = "finish"]
            /\ UNCHANGED <<pc, req, resp>>
       ELSE /\ n \in RecvSizes(up.body)
            /\ IF n = 0
               THEN /\ up' = [up EXCEPT !.pc = "cleanup"]
                    /\ UploadFail(t, "400 RECV_FAIL")
               ELSE /\ up' = [up EXCEPT !.pc = "send", !.next = "recv",
                                        !.chunk = Prefix(up.body, n),
                                        !.body = Suffix(up.body, n),
                                        !.first_recv = IF @ = 0 THEN n ELSE @]
                    /\ UNCHANGED <<pc, req, resp>>
    /\ UNCHANGED <<arbFrame, ctx, files>>

\* upload_ringbuf_send: xRingbufferSend(..., portMAX_DELAY) waits for room
upload_ringbuf_send(t) ==
    /\ pc[t] = "body"
    /\ up.pc = "send"
    /\ SumLen(ctx.rb) + Len(up.chunk) <= UPLOAD_RINGBUF_SIZE_DEFAULT
    /\ ctx' = [ctx EXCEPT !.rb = Append(@, up.chunk)]
    /\ up' = [up EXCEPT !.pc = up.next, !.chunk = <<>>, !.pushed = @ \o up.chunk]
    /\ UNCHANGED <<arbFrame, pc, req, resp, files>>

\* http_fs_upload: one turn of while (!header_done && remaining > 0), up to
\* the search for the end of the part header
mp_header_recv(t, n) ==
    /\ pc[t] = "body"
    /\ up.pc = "header"
    /\ IF Len(up.body) = 0
       THEN /\ n = 0
            /\ up' = [up EXCEPT !.pc = "cleanup"]
            /\ UploadFail(t, "400 BAD_MULTIPART")
       ELSE /\ n \in RecvSizes(up.body)
            /\ IF n = 0
               THEN /\ up' = [up EXCEPT !.pc = "cleanup"]
                    /\ UploadFail(t, "400 RECV_FAIL")
               ELSE LET space == UPLOAD_HEADER_SIZE - 1 - Len(up.header_buf)
                        to_copy == Min(n, space)
                        hb == up.header_buf \o Prefix(up.body, to_copy)
                        found == find_header_end(hb).pos # 0
                        u1 == [up EXCEPT !.header_buf = hb, !.body = Suffix(up.body, n),
                                         !.first_recv = IF @ = 0 THEN n ELSE @]
                    IN  IF found
                        THEN /\ up' = [u1 EXCEPT !.pc = "prepare"]
                             /\ UNCHANGED <<pc, req, resp>>
                        ELSE IF Len(hb) >= UPLOAD_HEADER_SIZE - 1
                        THEN /\ up' = [u1 EXCEPT !.pc = "cleanup"]
                             /\ UploadFail(t, "400 HEADER_TOO_LARGE")
                        ELSE /\ up' = u1
                             /\ UNCHANGED <<pc, req, resp>>
    /\ UNCHANGED <<arbFrame, ctx, files>>

\* http_fs_upload: the marker is built and whatever follows the part header
\* in header_buf goes to the ring as it is
mp_first(t) ==
    /\ pc[t] = "body"
    /\ up.pc = "first"
    /\ IF Len(boundary_marker) + 1 > UPLOAD_TAIL_SIZE
       THEN /\ up' = [up EXCEPT !.pc = "cleanup"]
            /\ UploadFail(t, "400 BOUNDARY_TOO_LONG")
       ELSE LET h == find_header_end(up.header_buf)
                data == Suffix(up.header_buf, h.pos + h.mark - 1)
            IN  /\ up' = [up EXCEPT !.pc = IF Len(data) > 0 THEN "send" ELSE "scan",
                                    !.next = "scan", !.chunk = data]
                /\ UNCHANGED <<pc, req, resp>>
    /\ UNCHANGED <<arbFrame, ctx, files>>

\* http_fs_upload: one turn of while (!done): recv if bytes remain, join the
\* carried tail with the chunk, look for the marker
mp_scan(t, n) ==
    /\ pc[t] = "body"
    /\ up.pc = "scan"
    /\ IF Len(up.body) = 0
       THEN /\ n = 0
            /\ up' = [up EXCEPT !.pc = "drain"]
            /\ UNCHANGED <<pc, req, resp>>
       ELSE /\ n \in RecvSizes(up.body)
            /\ IF n = 0
               THEN /\ up' = [up EXCEPT !.pc = "cleanup"]
                    /\ UploadFail(t, "400 RECV_FAIL")
               ELSE LET work == up.tail \o Prefix(up.body, n)
                        pos == IF Len(work) >= Len(boundary_marker)
                               THEN find_seq(work, boundary_marker) ELSE 0
                        keep == IF Len(boundary_marker) > 1
                                THEN Len(boundary_marker) - 1 ELSE 0
                        u1 == [up EXCEPT !.body = Suffix(up.body, n)]
                    IN  /\ UNCHANGED <<pc, req, resp>>
                        /\ IF pos # 0
                           THEN up' = [u1 EXCEPT !.chunk = Prefix(work, pos - 1),
                                                 !.next = "drain", !.done = TRUE,
                                                 !.pc = IF pos > 1 THEN "send" ELSE "drain"]
                           ELSE IF Len(work) > keep
                           THEN up' = [u1 EXCEPT !.chunk = Prefix(work, Len(work) - keep),
                                                 !.tail = Suffix(work, Len(work) - keep),
                                                 !.next = "scan", !.pc = "send"]
                           ELSE up' = [u1 EXCEPT !.tail = work]
    /\ UNCHANGED <<arbFrame, ctx, files>>

\* http_fs_upload: while (remaining > 0) the rest of the body is read and
\* dropped; a recv error only ends the loop
mp_drain(t, n) ==
    /\ pc[t] = "body"
    /\ up.pc = "drain"
    /\ IF Len(up.body) = 0
       THEN n = 0 /\ up' = [up EXCEPT !.pc = "finish"]
       ELSE /\ n \in RecvSizes(up.body)
            /\ up' = IF n = 0 THEN [up EXCEPT !.pc = "finish"]
                     ELSE [up EXCEPT !.body = Suffix(up.body, n)]
    /\ UNCHANGED <<arbFrame, ctx, files, pc, req, resp>>

\* upload_ctx_finish: ctx->input_done = true
upload_ctx_finish(t) ==
    /\ pc[t] = "body"
    /\ up.pc = "finish"
    /\ ctx' = [ctx EXCEPT !.input_done = TRUE]
    /\ up' = [up EXCEPT !.pc = "join"]
    /\ UNCHANGED <<arbFrame, pc, req, resp, files>>

\* a finish that does not wait for the writer's semaphore
upload_ctx_nojoin(t) ==
    /\ pc[t] = "body"
    /\ up.pc = "join"
    /\ ctx' = [ctx EXCEPT !.done_sem = "NULL", !.rb = <<>>]
    /\ IF ctx.result # "ESP_OK"
       THEN /\ up' = [up EXCEPT !.pc = "cleanup"]
            /\ UploadFail(t, "500 WRITE_FAIL")
       ELSE /\ up' = [up EXCEPT !.pc = "rename"]
            /\ UNCHANGED <<pc, req, resp>>
    /\ UNCHANGED <<arbFrame, files>>

\* upload_ctx_finish: the semaphore is taken once the writer gave it,
\* semaphore and ring are deleted, ctx->result is returned
upload_ctx_join(t) ==
    /\ pc[t] = "body"
    /\ up.pc = "join"
    /\ ctx.done_sem = "given"
    /\ ctx' = [ctx EXCEPT !.done_sem = "NULL", !.rb = <<>>]
    /\ IF ctx.result # "ESP_OK"
       THEN /\ up' = [up EXCEPT !.pc = "cleanup"]
            /\ UploadFail(t, "500 WRITE_FAIL")
       ELSE /\ up' = [up EXCEPT !.pc = "rename"]
            /\ UNCHANGED <<pc, req, resp>>
    /\ UNCHANGED <<arbFrame, files>>

\* rename(tmp_path, full_path), then {"ok":true}
upload_rename(t, ok) ==
    /\ pc[t] = "body"
    /\ up.pc = "rename"
    /\ IF ok
       THEN /\ files' = [final |-> files.part, part |-> Absent]
            /\ up' = [up EXCEPT !.pc = "cleanup", !.upload_ok = TRUE]
            /\ resp' = [resp EXCEPT ![t] = "200 ok"]
            /\ UNCHANGED <<pc, req>>
       ELSE /\ up' = [up EXCEPT !.pc = "cleanup"]
            /\ UploadFail(t, "500 RENAME_FAIL")
            /\ UNCHANGED files
    /\ UNCHANGED <<arbFrame, ctx>>

\* a cleanup that forgets the staging file
cleanup_keep(f, u) == {f}

\* cleanup: if (!upload_ok && tmp_path[0]) unlink(tmp_path).  The outcomes:
\* an indeterminate tmp_path starts with 0, or names no file, or names one of
\* the files
cleanup_unlink(f, u) ==
    IF u.upload_ok \/ u.tmp_path = ""
    THEN {f}
    ELSE IF u.tmp_path = "set"
    THEN {[f EXCEPT !.part = Absent]}
    ELSE {f, [f EXCEPT !.part = Absent], [f EXCEPT !.final = Absent]}

\* cleanup: a started pipeline that did not succeed is finished first
\* (input_done set, writer joined), an unstarted one has its file closed;
\* then the staging file is unlinked and the handler goes to fileop_unlock
upload_cleanup(t) ==
    /\ pc[t] = "body"
    /\ up.pc = "cleanup"
    /\ IF up.ctx_started /\ ~up.upload_ok /\ ctx.done_sem # "NULL"
       THEN /\ ctx' = [ctx EXCEPT !.input_done = TRUE]
            /\ up' = [up EXCEPT !.pc = "cleanup_join"]
            /\ UNCHANGED <<pc, files>>
       ELSE /\ ctx' = [ctx EXCEPT !.fp = FALSE, !.input_done =
                          IF up.ctx_started /\ ~up.upload_ok THEN TRUE ELSE @]
            /\ files' \in cleanup_unlink(files, up)
            /\ up' = [up EXCEPT !.pc = "idle", !.fp = FALSE]
            /\ pc' = [pc EXCEPT ![t] = "unlock"]
    /\ UNCHANGED <<arbFrame, req, resp>>

upload_cleanup_join(t) ==
    /\ pc[t] = "body"
    /\ up.pc = "cleanup_join"
    /\ ctx.done_sem = "given"
    /\ ctx' = [ctx EXCEPT !.done_sem = "NULL", !.rb = <<>>]
    /\ files' \in cleanup_unlink(files, up)
    /\ up' = [up EXCEPT !.pc = "idle", !.fp = FALSE]
    /\ pc' = [pc EXCEPT ![t] = "unlock"]
    /\ UNCHANGED <<arbFrame, req, resp>>

\* upload_writer_task: xRingbufferReceive with its 200 ms timeout; NULL
\* comes back only from an empty ring
writer_receive ==
    /\ ctx.task = "receive"
    /\ ctx' = [ctx EXCEPT !.task = IF ctx.rb = <<>> THEN "timeout" ELSE "write"]
    /\ UNCHANGED <<arbFrame, httpVars, up, files>>

\* upload_writer_task: if (!item) { if (ctx->input_done) break; continue; }
writer_timeout ==
    /\ ctx.task = "timeout"
    /\ ctx' = [ctx EXCEPT !.task = IF ctx.input_done THEN "close" ELSE "receive"]
    /\ UNCHANGED <<arbFrame, httpVars, up, files>>

\* a writer that takes the newest item of the ring instead of the oldest
writer_write_newest(written) ==
    /\ ctx.task = "write"
    /\ LET item == ctx.rb[Len(ctx.rb)]
       IN  /\ written \in 0 .. Len(item)
           /\ files' = [files EXCEPT !.part.data = @ \o Prefix(item, written)]
           /\ ctx' = IF written # Len(item)
                     THEN [ctx EXCEPT !.rb = Prefix(@, Len(@) - 1), !.result = "ESP_FAIL",
                                      !.task = "close"]
                     ELSE [ctx EXCEPT !.rb = Prefix(@, Len(@) - 1), !.task = "receive"]
    /\ UNCHANGED <<arbFrame, httpVars, up>>

\* upload_writer_task: fwrite of the item, vRingbufferReturnItem, and the
\* short-write test; written is what fwrite returns
writer_write(written) ==
    /\ ctx.task = "write"
    /\ LET item == Head(ctx.rb)
       IN  /\ written \in 0 .. Len(item)
           /\ files' = [files EXCEPT !.part.data = @ \o Prefix(item, written)]
           /\ ctx' = IF written # Len(item)
                     THEN [ctx EXCEPT !.rb = Tail(@), !.result = "ESP_FAIL", !.task = "close"]
                     ELSE [ctx EXCEPT !.rb = Tail(@), !.task = "receive"]
    /\ UNCHANGED <<arbFrame, httpVars, up>>

\* upload_writer_task: flush when the result is OK, fclose, give done_sem
writer_close ==
    /\ ctx.task = "close"
    /\ ctx' = [ctx EXCEPT !.fp = FALSE, !.done_sem = "given", !.task = "none"]
    /\ UNCHANGED <<arbFrame, httpVars, up, files>>

\* ------------------------------------------------------ normalize_path
\* what a char buffer of size n holds after strncpy plus terminator, or
\* after snprintf
Truncated(str, n) == Prefix(str, Min(Len(str), n - 1))

\* the index of the next '/' at or after p, or one past the end
RECURSIVE SegEnd(_, _)
SegEnd(tmp, p) ==
    IF p > Len(tmp) \/ tmp[p] = "/" THEN p ELSE SegEnd(tmp, p + 1)

\* the while (*p) loop of normalize_path; out holds out[0..di)
RECURSIVE normalize_segments(_, _, _, _)
normalize_segments(tmp, p, out, out_len) ==
    IF p > Len(tmp)
    THEN [ok |-> TRUE, out |-> out]
    ELSE LET q == SegEnd(tmp, p)
             seg == SubSeq(tmp, p, q - 1)
             after == IF q <= Len(tmp) THEN q + 1 ELSE q
         IN  IF Len(seg) = 0 \/ seg = <<".">>
             THEN normalize_segments(tmp, after, out, out_len)
             ELSE IF seg = <<".", ".">>
             THEN [ok |-> FALSE, out |-> <<>>]
             ELSE IF Len(out) + Len(seg) + 1 >= out_len
             THEN [ok |-> FALSE, out |-> <<>>]
             ELSE normalize_segments(tmp, after,
                      (IF Len(out) > 1 THEN out \o <<"/">> ELSE out) \o seg, out_len)

normalize_path(input, out_len) ==
    IF out_len < 2
    THEN [ok |-> FALSE, out |-> <<>>]
    ELSE IF input = <<>>
    THEN [ok |-> TRUE, out |-> <<"/">>]
    ELSE LET tmp == IF input[1] = "/"
                    THEN Truncated(input, MAX_PATH_LEN)
                    ELSE Truncated(<<"/">> \o input, MAX_PATH_LEN)
         IN  normalize_segments(tmp, 2, <<"/">>, out_len)

\* the segments of a path, split at every '/'
RECURSIVE Segments(_, _)
Segments(str, p) ==
    IF p > Len(str) + 1
    THEN {}
    ELSE LET q == SegEnd(str, p)
         IN  {SubSeq(str, p, q - 1)} \cup Segments(str, q + 1)

\* a control byte (TAB, 9) and the backslash
BadBytes == {"\t", "\\"}

PathChars == {"/", ".", "a"}

\* paths with one of those bytes as a segment, or at the start, in the
\* middle or at the end of one
BadPaths ==
    UNION {{<<b>>, <<"/", b>>, <<"a", b>>, <<b, "a">>, <<"/", "a", b, "a">>,
            <<"a", "/", b>>} : b \in BadBytes}

\* the callers hand over what a char[MAX_PATH_LEN] buffer can hold
PathInputs == UNION {[1 .. n -> PathChars] : n \in 0 .. (MAX_PATH_LEN - 1)} \cup BadPaths

\* io: a filesystem call was made for the path
NpIdle == [pc |-> "idle", input |-> <<>>, first |-> [ok |-> FALSE, out |-> <<>>],
           second |-> [ok |-> FALSE, out |-> <<>>], io |-> FALSE]

\* a handler normalises the path of its request into a char[MAX_PATH_LEN]
np_normalize(input) ==
    /\ np.pc = "idle"
    /\ np' = [np EXCEPT !.pc = "once", !.input = input,
                        !.first = normalize_path(input, MAX_PATH_LEN)]
    /\ UNCHANGED <<mscVars, blk, usbVars, sdVars, lockVars, httpVars, booted, upVars, obsVars>>

\* the result is normalised again
np_renormalize ==
    /\ np.pc = "once"
    /\ np.first.ok
    /\ np' = [np EXCEPT !.pc = "twice", !.second = normalize_path(np.first.out, MAX_PATH_LEN)]
    /\ UNCHANGED <<mscVars, blk, usbVars, sdVars, lockVars, httpVars, booted, upVars, obsVars>>

\* ------------------------------------------------------ http_fs_delete
\* sdcard_mount_point(), shortened as MAX_PATH_LEN is
Mount == <<"/", "m">>

\* build_fs_path: mount point followed by the normalised path, if it fits
build_fs_path(rel_path, out_len) ==
    IF Len(Mount) + (IF rel_path = <<"/">> THEN 0 ELSE Len(rel_path)) + 1 > out_len
    THEN [ok |-> FALSE, out |-> <<>>]
    ELSE [ok |-> TRUE, out |-> IF rel_path = <<"/">> THEN Mount ELSE Mount \o rel_path]

\* the one file the handlers of the model work on
TargetPath == Mount \o <<"/", "a">>

\* http_fs_delete after fileop_try_lock: read_body, json_get_string,
\* normalize_path and build_fs_path, each ending the request on failure
http_fs_delete_path(t, err, input) ==
    /\ pc[t] = "body_open"
    /\ req[t] = "delete"
    /\ err # "none" => input = <<>>
    /\ LET n == normalize_path(input, MAX_PATH_LEN)
           r == IF err # "none" THEN err
                ELSE IF ~n.ok \/ n.out = <<"/">> THEN "400 BAD_PATH"
                ELSE IF ~build_fs_path(n.out, MAX_PATH_LEN).ok THEN "500 PATH_FAIL"
                ELSE "none"
       IN  /\ np' = [NpIdle EXCEPT !.pc = "delete", !.input = input, !.first = n]
           /\ IF r = "none"
              THEN Goto(t, "delete_stat") /\ UNCHANGED resp
              ELSE resp' = [resp EXCEPT ![t] = r] /\ Goto(t, "unlock")
    /\ UNCHANGED <<mscVars, blk, usbVars, sdVars, lockVars, req, booted, upVars, obsVars>>

\* http_fs_delete: stat(full_path)
http_fs_delete_stat(t) ==
    /\ pc[t] = "delete_stat"
    /\ np' = [np EXCEPT !.io = TRUE]
    /\ IF s_mounted /\ files.final.exists
          /\ build_fs_path(np.first.out, MAX_PATH_LEN).out = TargetPath
       THEN Goto(t, "delete_unlink") /\ UNCHANGED resp
       ELSE resp' = [resp EXCEPT ![t] = "404 NOT_FOUND"] /\ Goto(t, "unlock")
    /\ UNCHANGED <<mscVars, blk, usbVars, sdVars, lockVars, req, booted, upVars, obsVars>>

\* http_fs_delete: unlink(full_path) and the response
http_fs_delete_unlink(t, ok) ==
    /\ pc[t] = "delete_unlink"
    /\ IF s_mounted /\ ok
       THEN /\ files' = [files EXCEPT !.final = Absent]
            /\ resp' = [resp EXCEPT ![t] = "200 ok"]
       ELSE /\ resp' = [resp EXCEPT ![t] = "500 DELETE_FAIL"]
            /\ UNCHANGED files
    /\ Goto(t, "unlock")
    /\ UNCHANGED <<mscVars, blk, usbVars, sdVars, lockVars, req, booted, ctx, up, np, obsVars>>

\* ------------------------------------------------------ specifications
NoFiles == [final |-> Absent, part |-> Absent]

\* the statics as the image is loaded, before app_main calls msc_init
InitStatics ==
    /\ s_state = "USB_DETACHED"
    /\ s_media_present = FALSE
    /\ s_unit_attention = FALSE
    /\ s_usb_installed = FALSE
    /\ blk = [disk |-> [i \in 0 .. (s_ramdisk_size - 1) |-> 0], ready |-> FALSE,
              fault |-> "none", cache |-> EmptyCache, ra |-> EmptyReadAhead]
    /\ usb_req = NoReq
    /\ usb_ret = "none"
    /\ sense = "none"
    /\ s_mounted = FALSE
    /\ s_fs_mutex = 0
    /\ s_sdtest_task = "NULL"
    /\ s_mode = "SDCARD_MODE_APP"
    /\ s_fileop_mutex = 0
    /\ fileop_holder = [m \in 0 .. NumHttp |-> 0]
    /\ pc = [t \in HttpThreads |-> "idle"]
    /\ req = [t \in HttpThreads |-> "none"]
    /\ resp = [t \in HttpThreads |-> "none"]
    /\ booted = "no"
    /\ ctx = CtxZero
    /\ up = UpIdle
    /\ shadow = [i \in 0 .. (s_ramdisk_size - 1) |-> 0]
    /\ last_read = NoRead
    /\ ua_reports = 0
    /\ ua_chance = "closed"

Init ==
    /\ InitStatics
    /\ files = NoFiles
    /\ np = NpIdle

InitOutcomes == {"ESP_OK", "ESP_ERR_NO_MEM", "ESP_FAIL"}

\* POST /api/usb/attach and /api/usb/detach on thread t
UsbHandlers(t) ==
    \/ web_fs_is_busy_take(t)
    \/ msc_attach_state(t)
    \/ \E ok \in BOOLEAN : msc_attach_unmount(t, ok)
    \/ \E o \in InitOutcomes : msc_attach_enable(t, o)
    \/ msc_attach_media(t)
    \/ msc_attach_attention(t)
    \/ msc_attach_publish(t)
    \/ msc_detach_state(t)
    \/ msc_detach_disable(t)
    \/ msc_detach_media(t)
    \/ msc_detach_attention(t)
    \/ \E ok \in BOOLEAN : msc_detach_mount(t, ok)
    \/ msc_detach_publish(t)
    \/ HttpReturn(t)

SelfTest ==
    \/ sdcard_self_test
    \/ \E f \in {0, 1} : sdtest_lock(f)
    \/ \E ok \in BOOLEAN : sdtest_remount(ok)
    \/ \E ok \in BOOLEAN : sdtest_mount(ok)
    \/ sdtest_io

\* the arbiter: attach and detach requests on the handler threads, the USB
\* task, the self-test task
Next ==
    \/ \E o \in InitOutcomes : msc_init(o)
    \/ \E t \in HttpThreads, k \in {"attach", "detach"} : HttpRecv(t, k)
    \/ \E t \in HttpThreads : UsbHandlers(t)
    \/ SelfTest
    \/ tud_msc_test_unit_ready_cb
    \/ unit_attention_clear
    \/ tud_msc_read10_cb(0, 0, s_block_size)
    \/ read10_body
    \/ \E c \in {"TEST_UNIT_READY", "MODE_SENSE_6"} : tud_msc_scsi_cb(c, TRUE)

Spec == Init /\ [][Next]_vars

\* a mutating handler on thread t, its body seen from the arbiter
FileHandler(t) ==
    \/ fs_gate_state(t)
    \/ fs_gate_mounted(t)
    \/ fileop_try_lock_check(t)
    \/ \E ok \in BOOLEAN : fileop_try_lock_create(t, ok)
    \/ fileop_try_lock_take(t)
    \/ handler_open(t)
    \/ handler_rename(t)
    \/ fileop_unlock(t)

\* the FsOpLock: file handlers and attach/detach requests on the handler
\* threads, and a host that asks for the capacity
NextLock ==
    \/ \E o \in InitOutcomes : msc_init(o)
    \/ \E t \in HttpThreads, k \in {"upload", "attach", "detach"} : HttpRecv(t, k)
    \/ \E t \in HttpThreads : FileHandler(t)
    \/ \E t \in HttpThreads : web_fs_is_busy_give(t)
    \/ \E t \in HttpThreads : UsbHandlers(t)
    \/ tud_msc_capacity_cb

SpecLock == Init /\ [][NextLock]_vars

\* the transfers the host issues: the first and the last sector of the
\* medium and a sector beyond the 32-bit byte range (MaxLba * MSC_SECTOR_SIZE
\* = Word); one or two whole sectors at offset 0, or the last byte of a sector
MaxLba == Word \div MSC_SECTOR_SIZE
ReadLbas == {0, s_block_count - 1, MaxLba}
WriteLbas == {0, MaxLba}
ReadShapes == {<<0, s_block_size>>, <<0, 2 * s_block_size>>, <<s_block_size - 1, 1>>}
WriteShapes == {<<0, s_block_size>>, <<s_block_size - 1, 1>>}
\* the bytes written: 0 1 for a sector, 1 for the last byte of a sector
Pattern(b, n) == [i \in 0 .. (n - 1) |-> (b + i) % 2]

\* the block adapter after a boot whose msc_init succeeded: one requester of
\* attach and detach, and a host that reads, writes and flushes
NextBlock ==
    \/ msc_init("ESP_OK")
    \/ \E k \in {"attach", "detach"} : HttpRecv(1, k)
    \/ UsbHandlers(1)
    \/ unit_attention_clear
    \/ \E lba \in ReadLbas, sh \in ReadShapes : tud_msc_read10_cb(lba, sh[1], sh[2])
    \/ read10_body
    \/ \E lba \in WriteLbas, sh \in WriteShapes :
           tud_msc_write10_cb(lba, sh[1], Pattern(sh[1], sh[2]), sh[2])
    \/ write10_body
    \/ tud_msc_scsi_cb("SYNCHRONIZE_CACHE_10", TRUE)
    \/ tud_msc_flush_cb
    \/ flush_body

SpecBlock == Init /\ [][NextBlock]_vars

\* the uploads a client sends: a raw body, an empty raw body, and a multipart
\* body of part header, blank line, two bytes of content and the closing
\* delimiter
RawBody == <<"A", "B">>
MultipartBody == <<"H", CR, LF, CR, LF, "A", "B">> \o boundary_marker \o <<"-", "-">>
UploadRequests == {<<"raw", RawBody>>, <<"raw", <<>>>>, <<"multipart", MultipartBody>>}

\* the error exits of the parsing stage, up to the name (raw) or the
\* boundary (multipart)
ParseOutcomes(kind) ==
    IF kind = "raw" THEN {"none", "400 BAD_PATH"} ELSE {"none", "400 NO_BOUNDARY"}

PrepareOutcomes == {"none", "400 NO_FILENAME", "500 DELETE_FAIL", "500 OPEN_FAIL", "500 NO_MEM"}

\* fwrite writes the whole item or, failing, none of it
ItemLen == IF ctx.rb = <<>> THEN 0 ELSE Len(Head(ctx.rb))

\* POST /api/fs/upload_raw and /api/fs/upload on thread t, with the writer task
Upload(t) ==
    \/ \E r \in UploadRequests, o \in BOOLEAN : upload_begin(t, r[1], r[2], o)
    \/ \E e \in ParseOutcomes(up.kind) : upload_parse(t, e)
    \/ \E e \in PrepareOutcomes : upload_prepare(t, e)
    \/ \E n \in 0 .. UPLOAD_RECV_BUF_SIZE : raw_recv(t, n)
    \/ upload_ringbuf_send(t)
    \/ \E n \in 0 .. UPLOAD_RECV_BUF_SIZE : mp_header_recv(t, n)
    \/ mp_first(t)
    \/ \E n \in 0 .. UPLOAD_RECV_BUF_SIZE : mp_scan(t, n)
    \/ \E n \in 0 .. UPLOAD_RECV_BUF_SIZE : mp_drain(t, n)
    \/ upload_ctx_finish(t)
    \/ upload_ctx_join(t)
    \/ \E ok \in BOOLEAN : upload_rename(t, ok)
    \/ upload_cleanup(t)
    \/ upload_cleanup_join(t)
    \/ writer_receive
    \/ writer_timeout
    \/ \E w \in {0, ItemLen} : writer_write(w)
    \/ writer_close

\* the upload pipeline after a boot whose msc_init succeeded: one handler
\* thread that is sent detach, attach and upload requests
NextUpload ==
    \/ msc_init("ESP_OK")
    \/ \E k \in {"upload", "attach", "detach"} : HttpRecv(1, k)
    \/ fs_gate_state(1)
    \/ fs_gate_mounted(1)
    \/ fileop_try_lock_check(1)
    \/ \E ok \in BOOLEAN : fileop_try_lock_create(1, ok)
    \/ fileop_try_lock_take(1)
    \/ Upload(1)
    \/ fileop_unlock(1)
    \/ web_fs_is_busy_give(1)
    \/ UsbHandlers(1)

\* the card at boot: the target path is free or is a directory
InitUpload ==
    /\ InitStatics
    /\ files \in {NoFiles, [NoFiles EXCEPT !.final = Directory]}
    /\ np = NpIdle

SpecUpload == InitUpload /\ [][NextUpload]_vars

\* multipart bodies that end without the delimiter: the part header, the
\* blank line and two or six bytes of content
TruncatedBodies ==
    {<<"H", CR, LF, CR, LF, "A", "B">>,
     <<"H", CR, LF, CR, LF, "A", "B", "C", "D", "E", "F">>}

\* POST /api/fs/upload on thread t with a body that has no delimiter
UploadTruncated(t) ==
    \/ \E b \in TruncatedBodies, o \in BOOLEAN : upload_begin(t, "multipart", b, o)
    \/ \E e \in ParseOutcomes(up.kind) : upload_parse(t, e)
    \/ \E e \in PrepareOutcomes : upload_prepare(t, e)
    \/ upload_ringbuf_send(t)
    \/ \E n \in 0 .. UPLOAD_RECV_BUF_SIZE : mp_header_recv(t, n)
    \/ mp_first(t)
    \/ \E n \in 0 .. UPLOAD_RECV_BUF_SIZE : mp_scan(t, n)
    \/ \E n \in 0 .. UPLOAD_RECV_BUF_SIZE : mp_drain(t, n)
    \/ upload_ctx_finish(t)
    \/ upload_ctx_join(t)
    \/ \E ok \in BOOLEAN : upload_rename(t, ok)
    \/ upload_cleanup(t)
    \/ upload_cleanup_join(t)
    \/ writer_receive
    \/ writer_timeout
    \/ \E w \in {0, ItemLen} : writer_write(w)
    \/ writer_close

NextTruncated ==
    \/ msc_init("ESP_OK")
    \/ \E k \in {"upload", "attach", "detach"} : HttpRecv(1, k)
    \/ fs_gate_state(1)
    \/ fs_gate_mounted(1)
    \/ fileop_try_lock_check(1)
    \/ \E ok \in BOOLEAN : fileop_try_lock_create(1, ok)
    \/ fileop_try_lock_take(1)
    \/ UploadTruncated(1)
    \/ fileop_unlock(1)
    \/ web_fs_is_busy_give(1)
    \/ UsbHandlers(1)

\* the multipart pipeline fed with bodies that lack the delimiter
SpecTruncated == Init /\ [][NextTruncated]_vars

\* ------------------------------------- http_fs_upload: the boundary
\* char content_type[128], char boundary[70], char boundary_marker[80]
CONTENT_TYPE_SIZE == 128
BOUNDARY_SIZE == 70
BOUNDARY_MARKER_SIZE == 80
MaxBoundary == 130

\* "multipart/form-data; boundary="
CtPrefix == [i \in 1 .. 21 |-> "m"] \o <<"b", "o", "u", "n", "d", "a", "r", "y", "=">>

\* strchr(boundary, ';') and *semi = 0
CutAt(str, c) ==
    LET at == {i \in 1 .. Len(str) : str[i] = c}
    IN  IF at = {} THEN str
        ELSE Prefix(str, (CHOOSE i \in at : \A j \in at : i <= j) - 1)

\* a pair of enclosing double quotes is dropped
Unquote(str) ==
    IF Len(str) >= 2 /\ str[1] = "\"" /\ str[Len(str)] = "\""
    THEN SubSeq(str, 2, Len(str) - 1) ELSE str

\* the boundary the client named in its Content-Type parameter
SentBoundary(param) == Unquote(CutAt(param, ";"))

\* http_fs_upload, from httpd_req_get_hdr_value_str to the test of marker_len:
\* the header value must fit content_type (the server reports a truncated
\* value as an error), strncpy keeps sizeof(boundary) - 1 bytes, snprintf
\* builds the marker
parse_boundary(param) ==
    LET value == CtPrefix \o param
        copied == Prefix(param, Min(Len(param), BOUNDARY_SIZE - 1))
        boundary == Unquote(CutAt(copied, ";"))
        marker == Prefix(<<CR, LF, "-", "-">> \o boundary,
                         Min(4 + Len(boundary), BOUNDARY_MARKER_SIZE - 1))
    IN  IF Len(value) + 1 > CONTENT_TYPE_SIZE
        THEN [resp |-> "400 NO_CONTENT_TYPE", marker |-> <<>>]
        ELSE IF boundary = <<>>
        THEN [resp |-> "400 NO_BOUNDARY", marker |-> <<>>]
        ELSE IF Len(marker) + 1 > UPLOAD_TAIL_SIZE
        THEN [resp |-> "400 BOUNDARY_TOO_LONG", marker |-> <<>>]
        ELSE [resp |-> "none", marker |-> marker]

\* boundaries of every length up to MaxBoundary, bare or quoted
BoundaryParams ==
    UNION {{[i \in 1 .. n |-> "x"], <<"\"">> \o [i \in 1 .. n |-> "x"] \o <<"\"">>} :
             n \in 0 .. MaxBoundary}

\* a multipart request arrives with its Content-Type parameter
upload_boundary(param) ==
    /\ np.pc = "idle"
    /\ np' = [pc |-> "boundary", input |-> param, sent |-> SentBoundary(param),
              result |-> parse_boundary(param)]
    /\ UNCHANGED <<mscVars, blk, usbVars, sdVars, lockVars, httpVars, booted, upVars, obsVars>>

NextBoundary == \E param \in BoundaryParams : upload_boundary(param)

SpecBoundary == Init /\ [][NextBoundary]_vars

\* who waits for whom: a host that reads and flushes, the self-test
\* task, and one handler thread serving uploads, attach and detach
NextWait ==
    \/ msc_init("ESP_OK")
    \/ \E k \in {"upload", "attach", "detach"} : HttpRecv(1, k)
    \/ FileHandler(1)
    \/ web_fs_is_busy_give(1)
    \/ UsbHandlers(1)
    \/ SelfTest
    \/ unit_attention_clear
    \/ tud_msc_read10_cb(0, 0, s_block_size)
    \/ read10_body
    \/ tud_msc_flush_cb
    \/ flush_body

\* the part of a callback behind lock_io(), and the store that ends a unit
\* attention report
UsbTaskStep == read10_body \/ flush_body \/ unit_attention_clear

\* the self-test task once created
SelfTestStep ==
    \/ \E f \in {0, 1} : sdtest_lock(f)
    \/ \E ok \in BOOLEAN : sdtest_remount(ok)
    \/ \E ok \in BOOLEAN : sdtest_mount(ok)
    \/ sdtest_io

\* a handler thread inside a request
HandlerStep == FileHandler(1) \/ web_fs_is_busy_give(1) \/ UsbHandlers(1)

\* every task is scheduled, and a task blocked in xSemaphoreTakeRecursive is
\* handed the mutex when it is given (strong fairness on the steps that take
\* it)
SpecWait ==
    /\ Init /\ [][NextWait]_vars
    /\ SF_vars(UsbTaskStep) /\ SF_vars(SelfTestStep) /\ SF_vars(HandlerStep)

\* path normalisation: every path a request can carry
NextPath ==
    \/ \E input \in PathInputs : np_normalize(input)
    \/ np_renormalize

SpecPath == Init /\ [][NextPath]_vars

\* the card holds the target file at boot
InitDelete ==
    /\ InitStatics
    /\ files = [final |-> [exists |-> TRUE, dir |-> FALSE, data |-> <<"A">>], part |-> Absent]
    /\ np = NpIdle

DeleteErrors == {"none", "400 BAD_BODY", "400 PATH_REQUIRED"}

\* POST /api/fs/delete on thread t
http_fs_delete(t) ==
    \/ fs_gate_state(t)
    \/ fs_gate_mounted(t)
    \/ fileop_try_lock_check(t)
    \/ \E ok \in BOOLEAN : fileop_try_lock_create(t, ok)
    \/ fileop_try_lock_take(t)
    \/ \E err \in DeleteErrors, input \in PathInputs : http_fs_delete_path(t, err, input)
    \/ http_fs_delete_stat(t)
    \/ \E ok \in BOOLEAN : http_fs_delete_unlink(t, ok)
    \/ fileop_unlock(t)

\* delete requests after a boot whose msc_init succeeded: one handler thread
\* that is sent detach, attach and delete requests
NextDelete ==
    \/ msc_init("ESP_OK")
    \/ \E k \in {"delete", "attach", "detach"} : HttpRecv(1, k)
    \/ http_fs_delete(1)
    \/ web_fs_is_busy_give(1)
    \/ UsbHandlers(1)

SpecDelete == InitDelete /\ [][NextDelete]_vars

\* the gate of the read-only handlers: download, attach and detach requests
\* on the handler threads, the card holding the target file
NextGate ==
    \/ msc_init("ESP_OK")
    \/ \E t \in HttpThreads, k \in {"download", "attach", "detach"} : HttpRecv(t, k)
    \/ \E t \in HttpThreads : fs_gate_state(t)
    \/ \E t \in HttpThreads : fs_gate_mounted(t)
    \/ \E t \in HttpThreads : http_fs_download_stat(t)
    \/ \E t \in HttpThreads : http_fs_download_read(t)
    \/ \E t \in HttpThreads : UsbHandlers(t)

SpecGate == InitDelete /\ [][NextGate]_vars

\* the opcodes the host sends to tud_msc_scsi_cb: those the switch names and
\* one it does not (FORMAT_UNIT stands for every opcode of the default case)
ScsiCmds == {"PREVENT_ALLOW_MEDIUM_REMOVAL", "SYNCHRONIZE_CACHE_10", "READ_FORMAT_CAPACITIES",
             "MODE_SENSE_6", "MODE_SENSE_10", "TEST_UNIT_READY", "START_STOP_UNIT",
             "FORMAT_UNIT"}

\* the command callbacks after a boot whose msc_init succeeded: one requester
\* of attach and detach, a host that sends every command with a reply buffer
\* of the host's choosing, long enough for the reply or not
NextScsi ==
    \/ msc_init("ESP_OK")
    \/ \E k \in {"attach", "detach"} : HttpRecv(1, k)
    \/ UsbHandlers(1)
    \/ unit_attention_clear
    \/ tud_msc_test_unit_ready_cb
    \/ \E c \in ScsiCmds, bufsize_ok \in BOOLEAN : tud_msc_scsi_cb(c, bufsize_ok)
    \/ tud_msc_capacity_cb
    \/ flush_body
    \/ tud_msc_read10_cb(0, 0, s_block_size)
    \/ read10_body
    \/ tud_msc_write10_cb(0, 0, Pattern(0, s_block_size), s_block_size)
    \/ write10_body

SpecScsi == Init /\ [][NextScsi]_vars

\* the card starts or stops refusing writes
card_fault(f) ==
    /\ blk.ready
    /\ blk.fault # f
    /\ blk' = [blk EXCEPT !.fault = f]
    /\ UNCHANGED <<mscVars, usbVars, sdVars, lockVars, httpVars, booted, upVars, np, obsVars>>

\* the writes of the host on a card that may fail, as lba, offset, size: the
\* first sector whole, and the last byte of the first and of the second
CardWrites == {<<0, 0, s_block_size>>, <<0, s_block_size - 1, 1>>, <<1, s_block_size - 1, 1>>}

\* the block adapter over a card that may fail, after a boot whose msc_init
\* succeeded: one requester of attach and detach, and a host that reads,
\* writes its first sectors, reads the first and flushes
NextCard ==
    \/ msc_init("ESP_OK")
    \/ \E k \in {"attach", "detach"} : HttpRecv(1, k)
    \/ UsbHandlers(1)
    \/ unit_attention_clear
    \/ \E f \in {"none", "write"} : card_fault(f)
    \/ \E sh \in WriteShapes : tud_msc_read10_cb(0, sh[1], sh[2])
    \/ read10_body
    \/ \E w \in CardWrites : tud_msc_write10_cb(w[1], w[2], Pattern(w[2], w[3]), w[3])
    \/ write10_body
    \/ \E c \in {"SYNCHRONIZE_CACHE_10", "PREVENT_ALLOW_MEDIUM_REMOVAL"} : tud_msc_scsi_cb(c, TRUE)
    \/ tud_msc_flush_cb
    \/ flush_body

SpecCard == Init /\ [][NextCard]_vars

\* the same host and requester over a device that never fails (the RAM disk,
\* or a card that accepts every write)
NextSync ==
    \/ msc_init("ESP_OK")
    \/ \E k \in {"attach", "detach"} : HttpRecv(1, k)
    \/ UsbHandlers(1)
    \/ unit_attention_clear
    \/ \E sh \in WriteShapes : tud_msc_read10_cb(0, sh[1], sh[2])
    \/ read10_body
    \/ \E w \in CardWrites : tud_msc_write10_cb(w[1], w[2], Pattern(w[2], w[3]), w[3])
    \/ write10_body
    \/ \E c \in {"SYNCHRONIZE_CACHE_10", "PREVENT_ALLOW_MEDIUM_REMOVAL"} : tud_msc_scsi_cb(c, TRUE)
    \/ tud_msc_flush_cb
    \/ flush_body

SpecSync == Init /\ [][NextSync]_vars

\* a raw body longer than the ring and two full reads together, every byte
\* of it different
LongBody == [i \in 1 .. (UPLOAD_RINGBUF_SIZE_DEFAULT + 2 * UPLOAD_RECV_BUF_SIZE) |-> ToString(i)]

\* http_fs_upload_raw on thread t from fileop_try_lock's success to
\* fileop_unlock; httpd_req_recv fills the buffer or fails
RawHandler(t) ==
    \/ \E o \in BOOLEAN : upload_begin(t, "raw", LongBody, o)
    \/ \E e \in ParseOutcomes("raw") : upload_parse(t, e)
    \/ \E e \in PrepareOutcomes : upload_prepare(t, e)
    \/ \E n \in {0, Min(Len(up.body), UPLOAD_RECV_BUF_SIZE)} : raw_recv(t, n)
    \/ upload_ringbuf_send(t)
    \/ upload_ctx_finish(t)
    \/ upload_ctx_join(t)
    \/ \E ok \in BOOLEAN : upload_rename(t, ok)
    \/ upload_cleanup(t)
    \/ upload_cleanup_join(t)
    \/ fileop_unlock(t)

\* upload_writer_task
WriterTask ==
    \/ writer_receive
    \/ writer_timeout
    \/ \E w \in {0, ItemLen} : writer_write(w)
    \/ writer_close

\* a long raw upload after a boot whose msc_init succeeded: one handler
\* thread that is sent detach, attach and upload requests, and the writer
NextStall ==
    \/ msc_init("ESP_OK")
    \/ \E k \in {"upload", "attach", "detach"} : HttpRecv(1, k)
    \/ fs_gate_state(1)
    \/ fs_gate_mounted(1)
    \/ fileop_try_lock_check(1)
    \/ \E ok \in BOOLEAN : fileop_try_lock_create(1, ok)
    \/ fileop_try_lock_take(1)
    \/ RawHandler(1)
    \/ WriterTask
    \/ web_fs_is_busy_give(1)
    \/ UsbHandlers(1)

\* the handler task and the writer task are both ready whenever they have a
\* step to take, and the scheduler runs every ready task
SpecStall == Init /\ [][NextStall]_vars /\ WF_vars(RawHandler(1)) /\ WF_vars(WriterTask)

\* --------------------------------------------------------------- claims
\* thread t is past fileop_try_lock and has not yet called fileop_unlock
HoldsLock(t) == pc[t] \in {"body_open", "body_rename", "body", "unlock"}

\* what a multipart body carries: the bytes between the blank line that ends
\* the part header and the delimiter
PartContent(wire) ==
    LET h == find_header_end(wire)
        rest == Suffix(wire, h.pos + h.mark - 1)
    IN  Prefix(rest, find_seq(rest, boundary_marker) - 1)

\* C1: the medium is never presented to the USB host (media present and
\* state USB_ATTACHED) while the FAT filesystem is mounted
C1_UsbXorMounted == ~(s_media_present /\ s_state = "USB_ATTACHED" /\ s_mounted)

\* C2: a Read10 that succeeds returns, for every position on the medium, the
\* byte last written there in this session, or the content the session began
\* with
C2_FlatByteArray == last_read.ret = "ESP_OK" => last_read.data = last_read.expect

\* C3: when a raw upload has answered ok, the file at the final path holds
\* exactly the bytes of the request body
C3_RawUploadContent ==
    (up.kind = "raw" /\ up.upload_ok) => files.final = [exists |-> TRUE, dir |-> FALSE, data |-> up.wire]

\* C4: when a multipart upload whose whole body came with the first recv has
\* answered ok, and the writer wrote all that was pushed, the file holds
\* exactly the bytes between the part header and the delimiter
C4_MultipartSingleRecv ==
    (up.kind = "multipart" /\ up.upload_ok /\ up.first_recv = Len(up.wire)
         /\ files.final.data = up.pushed)
        => files.final.data = PartContent(up.wire)

\* C5: when a multipart upload whose body came in two or more chunks has
\* answered ok, and the writer wrote all that was pushed, the file holds the
\* part content whatever the chunks were
C5_MultipartAnyChunking ==
    (up.kind = "multipart" /\ up.upload_ok /\ up.first_recv < Len(up.wire)
         /\ files.final.data = up.pushed)
        => files.final = [exists |-> TRUE, dir |-> FALSE, data |-> PartContent(up.wire)]

C7_OneHandlerPastLock == Cardinality({t \in HttpThreads : HoldsLock(t)}) <= 1

\* C8: no step unmounts the filesystem while a handler holds the FsOpLock
C8_NoUnmountUnderLock ==
    [][(\E t \in HttpThreads : HoldsLock(t)) => (s_mounted => s_mounted')]_vars

\* C9: in a session opened by an attach the unit attention is reported at
\* most once, and once the host has issued a checking command with the medium
\* present it has been reported
C9_UnitAttentionOnce == ua_reports <= 1 /\ (ua_chance = "asked" => ua_reports = 1)

\* C10: normalize_path fails on every input with a ".." segment; its output
\* starts with '/', has no "..", "." or empty segment, and normalises to itself
C10_NormalizePath ==
    /\ np.pc \in {"once", "twice"} =>
           /\ <<".", ".">> \in Segments(np.input, 1) => ~np.first.ok
           /\ np.first.ok =>
                  /\ np.first.out # <<>>
                  /\ np.first.out[1] = "/"
                  /\ \/ np.first.out = <<"/">>
                     \/ Segments(np.first.out, 2) \cap {<<>>, <<".">>, <<".", ".">>} = {}
    /\ np.pc = "twice" => np.second = np.first

\* C11: a delete request whose path has a '..' segment is answered
\* 400 BAD_PATH without a filesystem call, and the FsOpLock is free when the
\* handler has returned
C11_DotDotRefusedNoIo ==
    \A t \in HttpThreads :
        (req[t] = "delete" /\ np.pc = "delete" /\ pc[t] \in {"unlock", "done"}
            /\ <<".", ".">> \in Segments(np.input, 1)) =>
            /\ resp[t] = "400 BAD_PATH"
            /\ ~np.io
            /\ pc[t] = "done" => \A m \in DOMAIN fileop_holder : fileop_holder[m] # t

\* C12: once msc_detach has returned success (mode USB_DETACHED, medium
\* hidden) no Read10 or Write10 callback goes on to its locked body, which
\* reads or writes the block device and the sector cache
C12_NoTransferAfterDetach ==
    [][(s_state = "USB_DETACHED" /\ ~s_media_present
           /\ usb_req.op \in {"read10", "write10"})
          => usb_req'.op \in {"read10", "write10"}]_vars

\* a file-operation handler between its gate and its return
PastGate(t) ==
    pc[t] \in {"lock_check", "lock_create", "lock_take", "body_open", "body_rename",
               "body", "delete_stat", "delete_unlink", "unlock"}

\* C13: when an attach request has returned success and the mode is still
\* USB_ATTACHED, the filesystem is unmounted and no file-operation handler
\* is past the gate
C13_AttachedMeansUnmounted ==
    \A t \in HttpThreads :
        (req[t] = "attach" /\ pc[t] = "done" /\ resp[t] = "200 ATTACHED"
            /\ s_state = "USB_ATTACHED") =>
            /\ ~s_mounted
            /\ \A u \in HttpThreads : ~PastGate(u)

\* C14: when msc_attach or msc_detach has returned a failure, the published
\* mode is MSC_STATE_ERROR
C14_FailureLeavesError ==
    \A t \in HttpThreads :
        (pc[t] = "done" /\ resp[t] \in {"200 ATTACH_FAIL", "200 DETACH_FAIL"}) =>
            s_state = "ERROR"

\* a thread inside msc_attach or msc_detach, past the test of the mode
InTransition(t) ==
    pc[t] \in {"attach_unmount", "attach_enable", "attach_media", "attach_attention",
               "attach_publish", "detach_disable", "detach_media", "detach_attention",
               "detach_mount", "detach_publish"}

\* C15: after msc_init and outside a running transition, mode USB_DETACHED
\* implies the filesystem is mounted, and mode USB_ATTACHED implies the
\* medium is present and storage is initialised
C15_ModeInvariant ==
    (booted # "no" /\ \A t \in HttpThreads : ~InTransition(t)) =>
        /\ s_state = "USB_DETACHED" => s_mounted
        /\ s_state = "USB_ATTACHED" => s_media_present /\ storage_ready(blk)

\* C16: while a read-only handler is between its gate and its last
\* filesystem call, the filesystem is not unmounted
C16_MountLiveForReaders ==
    [][(\E t \in HttpThreads : pc[t] \in {"download_stat", "download_read"})
          => (s_mounted => s_mounted')]_vars

\* C17: attach and detach are serialized: at most one thread is inside
\* msc_attach or msc_detach past the test of the mode
C17_TransitionsSerialized == Cardinality({t \in HttpThreads : InTransition(t)}) <= 1

\* C18: while the mode is USB_ATTACHED the sdtest command is refused: no
\* self-test task is created, and a self-test task does not mount the
\* filesystem
C18_LocalJobsRefused ==
    [][s_state = "USB_ATTACHED" =>
          /\ s_sdtest_task = "NULL" => s_sdtest_task' = "NULL"
          /\ s_sdtest_task = "mount" => s_mounted' = s_mounted]_vars
\* C19: a command callback that has returned failure has set sense data in
\* that invocation, whatever made it refuse: medium absent, unit attention
\* pending, storage not ready, reply buffer too short, device error, unknown
\* opcode.
C19_RefusalSetsSense ==
    (usb_req.op = "none" /\ usb_ret = "fail") => sense # "none"

\* C20: an upload handler that holds the FsOpLock and has started on the
\* request always reaches its return, response sent and lock released,
\* also when the writer task stopped on a write error while body bytes are
\* still to be pushed.
C20_UploadTerminates ==
    \A t \in HttpThreads : (req[t] = "upload" /\ pc[t] = "body") ~> (pc[t] = "done")

\* C21: a mutating handler that has returned, with whatever response, holds
\* no mutex any more: the FsOpLock it took in fileop_try_lock has been given
\* back, so that the lock is held only while a handler is in progress.
C21_LockReleasedOnReturn ==
    \A t \in HttpThreads :
        pc[t] \in {"idle", "done"} => \A m \in DOMAIN fileop_holder : fileop_holder[m] # t

\* C22: the gate is the first step of every filesystem handler.  Its first
\* test answers 423 BUSY when the mode is USB_ATTACHED, its second answers
\* 409 NOT_MOUNTED when the filesystem is not mounted; either answer ends the
\* handler, is given by the gate alone, and comes with no change to the
\* FsOpLock or to the files.
C22_GateRefuses ==
    [][\A t \in HttpThreads :
          /\ (pc[t] = "gate" /\ pc'[t] # "gate" /\ s_state = "USB_ATTACHED")
                 => (resp'[t] = "423 BUSY" /\ pc'[t] = "done")
          /\ (pc[t] = "gate_mounted" /\ pc'[t] # "gate_mounted" /\ ~s_mounted)
                 => (resp'[t] = "409 NOT_MOUNTED" /\ pc'[t] = "done")
          /\ (resp'[t] # resp[t] /\ resp'[t] \in {"423 BUSY", "409 NOT_MOUNTED"})
                 => /\ pc[t] \in {"gate", "gate_mounted"}
                    /\ UNCHANGED <<lockVars, files, np, s_mounted>>]_vars

\* a delete request was refused at the second test of the gate, the mode being ERROR
C22_DeleteNotMounted ==
    \E t \in HttpThreads :
        req[t] = "delete" /\ pc[t] = "done" /\ resp[t] = "409 NOT_MOUNTED" /\ s_state = "ERROR"

\* C23: when the producer has pushed the whole body and set input_done in
\* upload_ctx_finish, the writer task leaves its loop with result OK only
\* when the ring is empty: no byte the producer pushed is left unwritten.
C23_WriterExitsDrained ==
    (up.pc = "join" /\ ctx.task = "close" /\ ctx.result = "ESP_OK") => ctx.rb = <<>>

\* C24: while an upload's pipeline runs, the bytes in the staging file are
\* the first bytes pushed into the ring, in the order of the pushes; the
\* ring never holds more than its capacity, and a producer whose chunk does
\* not fit waits with the chunk, nothing of it being pushed or dropped.
C24_WriteOrderIsPushOrder ==
    (up.ctx_started /\ up.pc \notin {"idle", "cleanup"} /\ files.part.exists) =>
        /\ Len(files.part.data) <= Len(up.pushed)
        /\ files.part.data = Prefix(up.pushed, Len(files.part.data))
        /\ SumLen(ctx.rb) <= UPLOAD_RINGBUF_SIZE_DEFAULT
        /\ up.pushed \o up.chunk \o up.body = up.wire

\* the ring is full with two chunks, the producer waits with a third, and the
\* writer has written the first chunk and is still running
C24_ProducerWaitsOnFullRing ==
    /\ up.pc = "send"
    /\ Len(ctx.rb) = 2
    /\ SumLen(ctx.rb) + Len(up.chunk) > UPLOAD_RINGBUF_SIZE_DEFAULT
    /\ Len(files.part.data) = UPLOAD_RECV_BUF_SIZE
    /\ ctx.task = "receive"

\* C25: the writer task is joined before the outcome is published.  The
\* completion semaphore and the ring are deleted only when the writer has
\* closed the staging file, given the semaphore and ended; the rename to the
\* final name and the ok response come after that.
C25_WriterJoinedFirst ==
    [][/\ (ctx.done_sem # "NULL" /\ ctx'.done_sem = "NULL")
            => (ctx.done_sem = "given" /\ ctx.task = "none" /\ ~ctx.fp)
       /\ (up'.pc = "rename" \/ up.pc = "rename" \/ (up'.upload_ok /\ ~up.upload_ok))
            => (ctx'.done_sem = "NULL" /\ ctx'.task = "none" /\ ~ctx'.fp)]_vars

\* a raw upload has been answered ok and its bytes are at the final name
C25_UploadPublished ==
    /\ up.upload_ok
    /\ up.kind = "raw"
    /\ files.final = [exists |-> TRUE, dir |-> FALSE, data |-> RawBody]
    /\ ctx.task = "none"

\* C26: in the sector cache dirty implies valid, in every state and whatever
\* the device does.
C26_DirtyImpliesValid == blk.cache.dirty => blk.cache.valid

\* C27: a read-ahead window marked valid has between one and
\* MSC_READAHEAD_SECTORS sectors, lies within the device, and holds the bytes
\* the device holds at its range.
C27_WindowMirrorsDevice ==
    blk.ra.valid =>
        /\ blk.ra.count \in 1 .. MSC_READAHEAD_SECTORS
        /\ blk.ra.lba + blk.ra.count <= s_block_count
        /\ \A i \in 0 .. (blk.ra.count * s_block_size - 1) :
               blk.ra.data[i] = blk.disk[blk.ra.lba * s_block_size + i]

\* a request by whole sectors at offset 0 (the fast path of both callbacks)
Aligned(r) == r.offset = 0 /\ r.bufsize % s_block_size = 0

\* C28: when the flush of the dirty sector fails at the start of an aligned
\* Read10 or Write10, the callback returns failure with sense MEDIUM_ERROR,
\* 11/00 for a read and 03/00 for a write.
C28_FlushErrorReported ==
    [][(/\ usb_req.op \in {"read10", "write10"}
        /\ usb_req'.op = "none"
        /\ Aligned(usb_req)
        /\ blk.cache.valid /\ blk.cache.dirty
        /\ flush_cache_locked(blk).ret # "ESP_OK")
         => /\ usb_ret' = "fail"
            /\ sense' = IF usb_req.op = "read10"
                         THEN "MEDIUM_ERROR 11/00" ELSE "MEDIUM_ERROR 03/00"]_vars

\* C29: an aligned whole-sector Write10 whose range contains the lba of the
\* dirty cached sector, once it has completed, leaves the cache without that
\* lba and without a pending sector, the device holding the written data over
\* the whole range, and the read-ahead window clear of the range: nothing is
\* left that a later flush or read could take the earlier bytes from.
C29_AlignedWriteSupersedes ==
    [][(/\ usb_req.op = "write10"
        /\ usb_req'.op = "none"
        /\ Aligned(usb_req)
        /\ blk.cache.valid /\ blk.cache.dirty
        /\ blk.cache.lba >= usb_req.lba
        /\ blk.cache.lba < usb_req.lba + usb_req.bufsize \div s_block_size
        /\ usb_ret' = "ok")
         => /\ ~blk'.cache.valid
            /\ flush_cache_locked(blk').b = blk'
            /\ \A i \in 0 .. (usb_req.bufsize - 1) :
                  blk'.disk[usb_req.lba * s_block_size + i] = usb_req.buffer[i]
            /\ ~(/\ blk'.ra.valid
                  /\ usb_req.lba < blk'.ra.lba + blk'.ra.count
                  /\ usb_req.lba + usb_req.bufsize \div s_block_size > blk'.ra.lba)]_vars

\* the aligned write of sector 0 has completed over a partial write of its
\* last byte: the invalidated cache still carries the superseded bytes
C29_SupersededPartialWrite ==
    /\ usb_req.op = "none" /\ usb_ret = "ok"
    /\ ~blk.cache.valid /\ ~blk.cache.dirty /\ blk.cache.lba = 0
    /\ blk.cache.data = [i \in 0 .. (s_block_size - 1) |-> 1]
    /\ \A i \in 0 .. (s_block_size - 1) : blk.disk[i] = Pattern(0, s_block_size)[i]
    /\ shadow = blk.disk

\* nothing is pending in the sector cache and the device holds every byte
\* the host has written
Synced(b) == ~b.cache.dirty /\ b.disk = shadow

\* C30: with a device that does not fail, when SYNCHRONIZE CACHE, PREVENT
\* ALLOW MEDIUM REMOVAL or the flush callback returns, and when msc_detach
\* returns, no sector is dirty and the device holds every byte written by
\* Write10; when msc_detach returns both the sector cache and the read-ahead
\* window are invalid; msc_enable on attach leaves both caches empty.
C30_FlushAndDetachSync ==
    [][/\ (usb_req.op = "flush" /\ usb_req'.op = "none" /\ blk.fault = "none")
            => Synced(blk')
       /\ \A t \in HttpThreads :
            (pc[t] = "detach_publish" /\ pc'[t] = "done" /\ blk.fault = "none")
              => (Synced(blk') /\ ~blk'.cache.valid /\ ~blk'.ra.valid)
       /\ \A t \in HttpThreads :
            (pc[t] = "attach_enable" /\ pc'[t] = "attach_media")
              => (blk'.cache = EmptyCache /\ blk'.ra = EmptyReadAhead)]_vars

\* C31: the step that refuses an attach or detach request with
\* FILEOP_IN_PROGRESS changes neither the mode, the mounted flag, the
\* media-present flag, the pending unit attention nor the caches, and the
\* file-operation mutex is held by the same other handler after it as before.
C31_BusyRefusalChangesNothing ==
    [][\A t \in HttpThreads :
         (/\ req[t] \in {"attach", "detach"}
          /\ resp'[t] = "423 FILEOP_IN_PROGRESS" /\ resp[t] # resp'[t])
           => /\ pc[t] = "is_busy" /\ pc'[t] = "done"
              /\ UNCHANGED <<s_state, s_mode, s_mounted, s_media_present, s_unit_attention,
                             s_usb_installed, blk, s_fileop_mutex, fileop_holder, files>>
              /\ s_fileop_mutex # 0
              /\ fileop_holder[s_fileop_mutex] \notin {0, t}]_vars

\* a detach request refused while the other thread's upload holds the mutex
C31_DetachRefusedDuringUpload ==
    \E t, u \in HttpThreads :
        /\ req[t] = "detach" /\ pc[t] = "done" /\ resp[t] = "423 FILEOP_IN_PROGRESS"
        /\ req[u] = "upload" /\ HoldsLock(u) /\ fileop_holder[s_fileop_mutex] = u

NameErrors == {"400 NO_FILENAME", "400 BAD_NAME"}

\* C32: in both upload modes, an upload onto a directory is refused with
\* 409 IS_DIRECTORY and an upload onto a file without the overwrite flag with
\* 409 FILE_EXISTS; the target is unlinked only when it is a file and
\* overwrite is set; and when the handler has cleaned up after either refusal
\* the target is what it was before the request.
C32_TargetResolution ==
    [][\A t \in HttpThreads :
         /\ (pc[t] = "body" /\ up.pc = "prepare" /\ up'.pc # "prepare")
              => /\ (files.final.exists /\ files.final.dir)
                      => /\ resp'[t] \in {"409 IS_DIRECTORY"} \cup NameErrors
                         /\ up'.pc = "cleanup" /\ files' = files
                 /\ (files.final.exists /\ ~files.final.dir /\ ~up.overwrite)
                      => /\ resp'[t] \in {"409 FILE_EXISTS"} \cup NameErrors
                         /\ up'.pc = "cleanup" /\ files' = files
                 /\ files'.final # files.final
                      => /\ files.final.exists /\ ~files.final.dir /\ up.overwrite
                         /\ files'.final = Absent
         /\ (req'[t] = "upload" /\ pc'[t] = "unlock"
                /\ resp'[t] \in {"409 IS_DIRECTORY", "409 FILE_EXISTS"})
              => files'.final = up'.before]_vars

\* C33: a READ CAPACITY (tud_msc_capacity_cb) or READ FORMAT CAPACITIES
\* callback that finds the medium absent fails with sense NOT_READY 3A/00;
\* with the medium ready, no unit attention pending and room for the reply,
\* it reports the capacity.
C33_CapacityNeedsMedium ==
    [][/\ tud_msc_capacity_cb
            => IF media_ready
               THEN usb_ret' = "capacity"
               ELSE usb_ret' = "fail" /\ sense' = "NOT_READY 3A/00"
       /\ tud_msc_scsi_cb("READ_FORMAT_CAPACITIES", TRUE)
            => IF media_ready
               THEN s_unit_attention \/ (usb_ret' = "ok" /\ sense' = "none")
               ELSE usb_ret' = "fail" /\ sense' = "NOT_READY 3A/00"]_vars

\* C34: a multipart upload whose delimiter, CR LF - - and the boundary the
\* client named, does not fit the tail buffer with its terminator is refused
\* with 400 BOUNDARY_TOO_LONG.
C34_LongBoundaryRefused ==
    (np.pc = "boundary" /\ 4 + Len(np.sent) + 1 > UPLOAD_TAIL_SIZE)
        => np.result.resp = "400 BOUNDARY_TOO_LONG"

\* C35: a delete request whose path has a control byte or a backslash in
\* some segment is refused by path normalisation: no stat or unlink is made
\* for it.
C35_BadBytesRefused ==
    \A t \in HttpThreads :
        (req[t] = "delete" /\ np.pc = "delete"
            /\ \E i \in 1 .. Len(np.input) : np.input[i] \in BadBytes)
          => ~np.io

\* C36: a step of a SCSI callback leaves the file-operation mutex and its
\* holder alone and does not keep the block-device lock; and every callback
\* that has reached lock_io() returns, and every request a handler thread
\* has taken in is answered: no callback and handler wait for each other
\* forever.
C36_CallbacksNeverDeadlock ==
    /\ [][(usb_req' # usb_req \/ usb_ret' # usb_ret \/ sense' # sense)
            => (UNCHANGED <<lockVars, s_fs_mutex>> /\ s_fs_mutex' # USB_TASK)]_vars
    /\ (usb_req.op # "none") ~> (usb_req.op = "none")
    /\ (pc[1] \notin {"idle", "done"}) ~> (pc[1] = "done")

\* a Read10 waits in lock_io() while the self-test holds the block-device
\* lock and an upload holds the file-operation mutex
C36_CallbackWaitsForSelfTest ==
    /\ usb_req.op = "read10"
    /\ s_fs_mutex = SDTEST_TASK
    /\ req[1] = "upload" /\ HoldsLock(1)

\* C37: when an upload handler has cleaned up after an error response, a
\* file that was at the final path before the request is still there with
\* the same content, whether or not overwrite was set (stated for the
\* requests that got as far as the declaration of tmp_path, whose cleanup
\* unlinks a known path).
C37_FailedUploadKeepsFile ==
    \A t \in HttpThreads :
        (pc[t] = "unlock" /\ req[t] = "upload" /\ resp[t] # "200 ok"
            /\ up.before.exists /\ ~up.before.dir /\ up.tmp_path # "indeterminate")
          => files.final = up.before

\* C38: a multipart upload answers ok (and has renamed the staging file)
\* only if its scan found the delimiter CRLF--boundary; a body that ends
\* without it is answered with an error, so no byte held back in the tail
\* buffer is missing from a file reported as stored.
C38_OkOnlyWithDelimiter ==
    \A t \in HttpThreads :
        (req[t] = "upload" /\ up.kind = "multipart" /\ resp[t] = "200 ok")
            => /\ up.done
               /\ find_seq(up.wire, boundary_marker) # 0

\* C39: msc_attach called while the state is USB_ATTACHED, and msc_detach
\* called while it is USB_DETACHED, return success at once and leave the
\* state, the mode, the mounted flag, the media-present flag, the pending
\* unit attention, the sector cache and the read-ahead window as they were.
C39_AttachDetachIdempotent ==
    [][\A t \in HttpThreads :
         ((\/ pc[t] = "attach_state" /\ s_state = "USB_ATTACHED"
           \/ pc[t] = "detach_state" /\ s_state = "USB_DETACHED")
          /\ pc'[t] # pc[t])
            => /\ pc'[t] = "done"
               /\ resp'[t] = IF pc[t] = "attach_state" THEN "200 ATTACHED" ELSE "200 DETACHED"
               /\ UNCHANGED <<s_state, s_mode, s_mounted, s_media_present, s_unit_attention,
                              blk>>]_vars

\* an attach request has returned although no attach ran since boot, and
\* the sector cache still holds the dirty sector the host wrote before it
C39_AttachedAgainKeepsDirty ==
    /\ pc[1] = "done" /\ req[1] = "attach" /\ resp[1] = "200 ATTACHED"
    /\ s_state = "USB_ATTACHED" /\ ua_chance = "closed"
    /\ blk.cache.valid /\ blk.cache.dirty

\* the sectors a request covers: bufsize / s_block_size on the aligned path,
\* the one sector at lba on the partial-sector path
Sectors(r) == IF Aligned(r) THEN r.bufsize \div s_block_size ELSE 1

\* C40: a Read10 or Write10 whose sector range is not entirely inside
\* [0, block_count) is refused with MediumError, and the device is left as it
\* was but for the dirty sector the callback may flush first; this for every
\* lba of the 32-bit range, on the aligned path, the read-ahead fill and the
\* partial-sector path.
C40_OutOfRangeRefused ==
    [][(/\ usb_req.op \in {"read10", "write10"}
        /\ usb_req' = NoReq
        /\ usb_req.lba + Sectors(usb_req) > s_block_count)
          => /\ usb_ret' = "fail"
             /\ sense' = IF usb_req.op = "read10"
                         THEN "MEDIUM_ERROR 11/00" ELSE "MEDIUM_ERROR 03/00"
             /\ blk'.disk \in {blk.disk, flush_cache_locked(blk).b.disk}]_vars

====
